---- MODULE Spec2Model ----
(***************************************************************************)
(* Model of the music-downloader deduplicating acquisition pipeline:       *)
(* the completion ledger (cache.py), the filesystem reconciler             *)
(* (filesystem.py), the YouTube and Spotify adapters (youtube.py,          *)
(* spotify.py) and the batch orchestrators (main.py, ui/workers.py).       *)
(***************************************************************************)
EXTENDS Integers, Sequences, FiniteSets, TLC

VARIABLES
    memValid,   \* DownloadCache._data is an object holding a "songs" mapping
    mem,        \* DownloadCache._data["songs"]
    diskKind,   \* backing file: "missing", "garbage", "nosongs" or "store"
    diskSongs,  \* the "songs" mapping held by the backing file
    clock,      \* datetime.now()
    tags,       \* the .mp3 files below the music directory: path -> embedded video_id
    run,        \* the batch in progress: references, position, descriptors collected
    completed,  \* the video ids whose fetch/tag/register cycle completed
    text,       \* the name handed to sanitize_filename and what it returned
    zot,        \* ZotifyDownloader: calls made, runs of the external tool, last result
    gui,        \* the GUI application: the download threads it started, engine calls made
    thr,        \* the Qt threads inside a ledger mutation: position and write buffer
    scan,       \* the last call of the filesystem reconciler and what it returned
    last        \* the last operation, its argument and how it ended

ledgerVars == <<memValid, mem, diskKind, diskSongs>>

pipeVars == <<tags, run, completed>>

unitVars == <<text, zot, gui, thr, scan>>

vars == <<memValid, mem, diskKind, diskSongs, clock, tags, run, completed, text, zot, gui, thr, scan, last>>

----------------------------------------------------------------------------
(* Bounds *)

\* number of registrations made directly on the ledger (caps datetime.now())
MaxClock == 2

\* longest name sanitize_filename lets through (200 in the program)
MaxNameLen == 4

\* number of calls made on one ZotifyDownloader
MaxCalls == 3

----------------------------------------------------------------------------
(* Names, paths and records *)

\* absent optional value (Python None) among names
None == <<"<None>">>

\* names used for titles, file names and playlists: sequences of characters
NameA == <<"a">>

NameB == <<"b">>

NameP == <<"p">>

\* a name typed by the user that holds a character illegal in file names
NameRaw == <<"p", ":">>

\* a path below the music directory: directory scope, playlist folder, file stem
MkPath(scope, pl, name) == [scope |-> scope, pl |-> pl, name |-> name]

\* absent path (Python None)
NoPath == MkPath("none", <<>>, <<>>)

\* record stored per song id by register
MkSong(title, artist, source, path, playlist, at) ==
    [title |-> title, artist |-> artist, source |-> source, path |-> path,
     playlist |-> playlist, downloaded_at |-> at]

\* the empty "songs" mapping
EmptySongs == <<>>

\* song ids the ledger is asked about: bare video ids and prefixed track ids
SongIds == {"v1", "spotify:t1"}

\* paths handed to the ledger by its callers
PathChoices == {MkPath("singles", <<>>, NameA), MkPath("playlists", NameP, NameA)}

\* what the last operation was
MkLast(op, id, ret, path) == [op |-> op, id |-> id, ret |-> ret, path |-> path]

----------------------------------------------------------------------------
(* DownloadCache: queries *)

\* _load: the value of _data after construction, from the backing file
_load(kind, songs) ==
    CASE kind = "missing" -> [valid |-> TRUE, songs |-> EmptySongs]
      [] kind = "garbage" -> [valid |-> TRUE, songs |-> EmptySongs]
      [] kind = "nosongs" -> [valid |-> FALSE, songs |-> EmptySongs]
      [] OTHER -> [valid |-> TRUE, songs |-> songs]

\* is_downloaded: raises KeyError when _data has no "songs"
is_downloaded(valid, songs, id) ==
    [raised |-> ~valid, value |-> valid /\ id \in DOMAIN songs]

\* get_path
get_path(valid, songs, id) ==
    [raised |-> ~valid,
     value |-> IF valid /\ id \in DOMAIN songs THEN songs[id].path ELSE NoPath]

\* list_songs: the set of (id, record) pairs
list_songs(valid, songs) ==
    [raised |-> ~valid,
     value |-> IF valid THEN {<<id, songs[id]>> : id \in DOMAIN songs} ELSE {}]

\* get
get(valid, songs, id) ==
    [raised |-> ~valid, found |-> valid /\ id \in DOMAIN songs]

----------------------------------------------------------------------------
(* DownloadCache: persistence *)

\* outcomes of writing the backing file: written, open() failed, dump failed
SaveOutcomes == {"ok", "openfail", "writefail"}

\* _save dumping _data["songs"] instead of _data: the file has no "songs" key
_save_dumps_songs_only(outcome, songs, oldKind, oldSongs) ==
    CASE outcome = "ok" -> [kind |-> "nosongs", songs |-> EmptySongs]
      [] outcome = "openfail" -> [kind |-> oldKind, songs |-> oldSongs]
      [] OTHER -> [kind |-> "garbage", songs |-> EmptySongs]

\* _save: the backing file after json.dump of _data under the given outcome
_save(outcome, songs, oldKind, oldSongs) ==
    CASE outcome = "ok" -> [kind |-> "store", songs |-> songs]
      [] outcome = "openfail" -> [kind |-> oldKind, songs |-> oldSongs]
      [] OTHER -> [kind |-> "garbage", songs |-> EmptySongs]

\* the outcomes of writing the backing file considered inside a batch
BatchSaveOutcomes == {"ok", "writefail"}

\* the exception _save ends with, "ok" when none
SaveRet(outcome) == IF outcome = "ok" THEN "ok" ELSE "OSError"

\* register: _data after the call, the backing file and the outcome
RegisterEffect(valid, songs, dKind, dSongs, id, rec, outcome) ==
    IF ~valid
    THEN [ret |-> "KeyError", songs |-> songs, kind |-> dKind, dsongs |-> dSongs]
    ELSE LET new == (id :> rec) @@ songs
             d == _save(outcome, new, dKind, dSongs)
         IN [ret |-> SaveRet(outcome), songs |-> new, kind |-> d.kind, dsongs |-> d.songs]

\* remove that deletes the record in memory and returns without saving
RemoveEffect_no_save(valid, songs, dKind, dSongs, id, outcome) ==
    IF ~valid
    THEN [ret |-> "KeyError", songs |-> songs, kind |-> dKind, dsongs |-> dSongs]
    ELSE IF id \in DOMAIN songs
    THEN [ret |-> "True", songs |-> [k \in DOMAIN songs \ {id} |-> songs[k]],
          kind |-> dKind, dsongs |-> dSongs]
    ELSE [ret |-> "False", songs |-> songs, kind |-> dKind, dsongs |-> dSongs]

\* remove
RemoveEffect(valid, songs, dKind, dSongs, id, outcome) ==
    IF ~valid
    THEN [ret |-> "KeyError", songs |-> songs, kind |-> dKind, dsongs |-> dSongs]
    ELSE IF id \in DOMAIN songs
    THEN LET new == [k \in DOMAIN songs \ {id} |-> songs[k]]
             d == _save(outcome, new, dKind, dSongs)
         IN [ret |-> IF outcome = "ok" THEN "True" ELSE "OSError",
             songs |-> new, kind |-> d.kind, dsongs |-> d.songs]
    ELSE [ret |-> "False", songs |-> songs, kind |-> dKind, dsongs |-> dSongs]

\* update_song: path and playlist are None when not supplied
UpdateEffect(valid, songs, dKind, dSongs, id, path, playlist, outcome) ==
    IF ~valid
    THEN [ret |-> "KeyError", songs |-> songs, kind |-> dKind, dsongs |-> dSongs]
    ELSE IF id \notin DOMAIN songs
    THEN [ret |-> "False", songs |-> songs, kind |-> dKind, dsongs |-> dSongs]
    ELSE LET r1 == IF path # NoPath THEN [songs[id] EXCEPT !.path = path] ELSE songs[id]
             r2 == IF playlist # None THEN [r1 EXCEPT !.playlist = playlist] ELSE r1
             new == [songs EXCEPT ![id] = r2]
             d == _save(outcome, new, dKind, dSongs)
         IN [ret |-> IF outcome = "ok" THEN "True" ELSE "OSError",
             songs |-> new, kind |-> d.kind, dsongs |-> d.songs]

\* clear
ClearEffect(dKind, dSongs, outcome) ==
    LET d == _save(outcome, EmptySongs, dKind, dSongs)
    IN [ret |-> SaveRet(outcome), songs |-> EmptySongs, kind |-> d.kind, dsongs |-> d.songs]

----------------------------------------------------------------------------
(* DownloadCache: the operations as actions *)

\* DownloadCache(cache_file)
Construct ==
    LET l == _load(diskKind, diskSongs)
    IN /\ memValid' = l.valid
       /\ mem' = l.songs
       /\ last' = MkLast("construct", "", "ok", NoPath)
       /\ UNCHANGED <<diskKind, diskSongs, clock>>
       /\ UNCHANGED <<pipeVars, unitVars>>

\* cache.register(song_id, title, artist, source, path, playlist_name)
Register(id, title, source, path, playlist, outcome) ==
    /\ clock < MaxClock
    /\ LET e == RegisterEffect(memValid, mem, diskKind, diskSongs, id,
                               MkSong(title, "u", source, path, playlist, clock), outcome)
       IN /\ mem' = e.songs
          /\ diskKind' = e.kind
          /\ diskSongs' = e.dsongs
          /\ last' = MkLast("register", id, e.ret, path)
    /\ clock' = clock + 1
    /\ UNCHANGED memValid
    /\ UNCHANGED <<pipeVars, unitVars>>

\* cache.remove(song_id)
Remove(id, outcome) ==
    /\ LET e == RemoveEffect(memValid, mem, diskKind, diskSongs, id, outcome)
       IN /\ mem' = e.songs
          /\ diskKind' = e.kind
          /\ diskSongs' = e.dsongs
          /\ last' = MkLast("remove", id, e.ret, NoPath)
    /\ UNCHANGED <<memValid, clock>>
    /\ UNCHANGED <<pipeVars, unitVars>>

\* cache.update_song(song_id, path, playlist)
UpdateSong(id, path, playlist, outcome) ==
    /\ LET e == UpdateEffect(memValid, mem, diskKind, diskSongs, id, path, playlist, outcome)
       IN /\ mem' = e.songs
          /\ diskKind' = e.kind
          /\ diskSongs' = e.dsongs
          /\ last' = MkLast("update", id, e.ret, path) @@ [playlist |-> playlist]
    /\ UNCHANGED <<memValid, clock>>
    /\ UNCHANGED <<pipeVars, unitVars>>

\* cache.clear()
Clear(outcome) ==
    /\ LET e == ClearEffect(diskKind, diskSongs, outcome)
       IN /\ mem' = e.songs
          /\ diskKind' = e.kind
          /\ diskSongs' = e.dsongs
          /\ last' = MkLast("clear", "", e.ret, NoPath)
    /\ memValid' = TRUE
    /\ UNCHANGED clock
    /\ UNCHANGED <<pipeVars, unitVars>>

----------------------------------------------------------------------------
(* The backing file changed from outside the program *)

\* the backing file is deleted
ExternalDelete ==
    /\ diskKind # "missing"
    /\ diskKind' = "missing"
    /\ diskSongs' = EmptySongs
    /\ last' = MkLast("external", "", "ok", NoPath)
    /\ UNCHANGED <<memValid, mem, clock>>
    /\ UNCHANGED <<pipeVars, unitVars>>

\* the backing file is replaced by invalid content: unparseable (or empty)
\* text, or JSON that is not an object with a "songs" mapping
ExternalWrite(kind) ==
    /\ diskKind # kind
    /\ diskKind' = kind
    /\ diskSongs' = EmptySongs
    /\ last' = MkLast("external", "", "ok", NoPath)
    /\ UNCHANGED <<memValid, mem, clock>>
    /\ UNCHANGED <<pipeVars, unitVars>>

----------------------------------------------------------------------------
----------------------------------------------------------------------------
(* utils.py: sanitize_filename *)

\* characters re.sub(r'[<>:"/\\|?*]', '', name) removes
IllegalChars == {"<", ">", ":", "\"", "/", "\\", "|", "?", "*"}

\* characters matched by \s
Whitespace == {" ", "\t", "\n"}

\* re.sub(r'[<>:"/\\|?*]', '', name)
RemoveIllegal(s) == SelectSeq(s, LAMBDA c : c \notin IllegalChars)

RECURSIVE DropLeadingWs(_)
\* the sequence without its leading whitespace
DropLeadingWs(s) ==
    IF s # <<>> /\ Head(s) \in Whitespace THEN DropLeadingWs(Tail(s)) ELSE s

RECURSIVE CollapseWs(_)
\* re.sub(r'\s+', ' ', sanitized)
CollapseWs(s) ==
    IF s = <<>> THEN <<>>
    ELSE IF Head(s) \in Whitespace THEN <<" ">> \o CollapseWs(DropLeadingWs(s))
    ELSE <<Head(s)>> \o CollapseWs(Tail(s))

RECURSIVE DropTrailingWs(_)
\* the sequence without its trailing whitespace
DropTrailingWs(s) ==
    IF s # <<>> /\ s[Len(s)] \in Whitespace
    THEN DropTrailingWs(SubSeq(s, 1, Len(s) - 1)) ELSE s

\* str.strip()
Strip(s) == DropTrailingWs(DropLeadingWs(s))

\* sanitized[:200] if len(sanitized) > 200 else sanitized
Truncate(s) == IF Len(s) > MaxNameLen THEN SubSeq(s, 1, MaxNameLen) ELSE s

\* sanitize_filename(name)
sanitize_filename(name) == Truncate(Strip(CollapseWs(RemoveIllegal(name))))

----------------------------------------------------------------------------
(* What the catalogs answer *)

\* video ids of the YouTube catalog
VideoIds == {"v1", "v2"}

\* playlist references of the YouTube catalog
PlaylistIds == {"p1"}

\* info['title'] of a video: v1 and v2 differ only in an illegal character
VideoTitle(v) ==
    IF v = "v1" THEN <<"a">> ELSE <<"a", "?">>

\* playlist_info['title']
PlaylistTitle(p) == <<"p", ":">>

\* playlist_info['entries']: video ids, "none" for an entry that is None
PlaylistEntries(p) == <<"v2", "none", "v1">>

\* references the catalogs do not know: a text that is no URL of the
\* platform, and one that holds "list=" besides
UnknownRefs == {"bad", "bad?list="}

\* is_playlist_url(url): 'list=' in url or '/playlist/' in url
is_playlist_url(ref) == ref \in PlaylistIds \cup {"bad?list="}

----------------------------------------------------------------------------
(* filesystem.py: the scan of the music directory *)

\* no .mp3 file at all
NoFiles == <<>>

\* get_video_id_from_mp3 returning None: no TXXX:video_id frame, or no tags
NoTag == "<None>"

\* music/singles
DirSingles == [scope |-> "singles", pl |-> <<>>]

\* music/playlists/<name>
DirPlaylist(name) == [scope |-> "playlists", pl |-> name]

\* absent output_dir (Python None)
NoDir == [scope |-> "none", pl |-> <<>>]

\* output_dir / f"{stem}.mp3"
FilePath(dir, stem) == MkPath(dir.scope, dir.pl, stem)

\* alphabetical order of the names in use
NameOrder == <<NameA, NameB, NameP, NameRaw>>

\* position of a name in sorted() order
NameRank(n) == IF n = <<>> THEN 0 ELSE CHOOSE i \in 1..Len(NameOrder) : NameOrder[i] = n

\* position of a file in the scan: playlists (sorted), then singles, then the root
ScanRank(p) ==
    (CASE p.scope = "playlists" -> 0 [] p.scope = "singles" -> 1 [] OTHER -> 2) * 100
    + NameRank(p.pl) * 10 + NameRank(p.name)

\* scan_playlists: sub-directories of music/playlists holding an .mp3 file
scan_playlists(t) == {p.pl : p \in {q \in DOMAIN t : q.scope = "playlists" /\ q.pl # <<>>}}

\* the files the scan globs: music/playlists/<name>/*.mp3 (a directory that
\* holds one is a name of scan_playlists), music/singles/*.mp3, music/*.mp3
Scanned(t) ==
    {p \in DOMAIN t : \/ p.scope = "playlists" /\ p.pl # <<>>
                      \/ p.scope \in {"singles", "root"}}

RECURSIVE InScanOrder(_, _)
\* the files of a set as the scan visits them
InScanOrder(t, S) ==
    IF S = {} THEN <<>>
    ELSE LET m == CHOOSE x \in S : \A y \in S : ScanRank(x) <= ScanRank(y)
         IN <<[path |-> m, video_id |-> t[m]]>> \o InScanOrder(t, S \ {m})

\* a scan that descends into every directory below the music directory
scan_all_songs_recursive(t) == InScanOrder(t, DOMAIN t)

\* scan_all_songs: the playlists' files, music/singles/*.mp3, music/*.mp3
scan_all_songs(t) == InScanOrder(t, Scanned(t))

\* a lookup that keeps the last scanned file whose video_id tag matches
find_song_by_video_id_last_match(t, vid) ==
    LET all == scan_all_songs(t)
        hits == {i \in 1..Len(all) : all[i].video_id = vid}
    IN IF hits = {} THEN [found |-> FALSE, path |-> NoPath]
       ELSE [found |-> TRUE,
             path |-> all[CHOOSE i \in hits : \A j \in hits : i >= j].path]

\* find_song_by_video_id: the first scanned file whose video_id tag matches
find_song_by_video_id(t, vid) ==
    LET all == scan_all_songs(t)
        hits == {i \in 1..Len(all) : all[i].video_id = vid}
    IN IF hits = {} THEN [found |-> FALSE, path |-> NoPath]
       ELSE [found |-> TRUE,
             path |-> all[CHOOSE i \in hits : \A j \in hits : i <= j].path]

\* is_song_downloaded
is_song_downloaded(t, vid) == find_song_by_video_id(t, vid).found

----------------------------------------------------------------------------
(* Item descriptors and the batch in progress *)

\* the dict a download returns: "error" is the text of the exception, "" when
\* the key is absent; "path" is NoPath when the key is absent or None
MkDesc(id, skipped, error, path) ==
    [id |-> id, skipped |-> skipped, error |-> error, path |-> path]

\* no batch started yet
IdleRun ==
    [status |-> "idle", kind |-> "cli", platform |-> "youtube", urls |-> <<>>,
     idx |-> 1, member |-> 0, page |-> 1, results |-> <<>>, name |-> None,
     plName |-> None, raised |-> "", cancelled |-> FALSE]

\* custom_output_dir / output_dir: music/playlists/<name> when a name was given
OutDir == IF run.name = None THEN NoDir ELSE DirPlaylist(run.name)

\* outcomes of a call of the fetch engine, the catalog or the tag codec
Outcomes == {"ok", "fail"}

\* the exceptions that are a YouTubeDownloadError
IsYouTubeDownloadError(ret) ==
    ret \in {"YouTubeDownloadError:probe", "YouTubeDownloadError:fetch"}

\* a call that returned a descriptor
Returned(ret) == ret \in {"downloaded", "skipped"}

\* summary whose downloaded count is every descriptor without error
Summary_downloaded_ignores_skipped(results) ==
    LET n(P(_)) == Cardinality({i \in 1..Len(results) : P(results[i])})
        isDownloaded(r) == r.error = ""
        isSkipped(r) == r.skipped
        isError(r) == r.error # ""
    IN [downloaded |-> n(isDownloaded), skipped |-> n(isSkipped),
        errors |-> n(isError), total |-> Len(results)]

\* summary of a list of descriptors
Summary(results) ==
    LET n(P(_)) == Cardinality({i \in 1..Len(results) : P(results[i])})
        isDownloaded(r) == ~r.skipped /\ r.error = ""
        isSkipped(r) == r.skipped
        isError(r) == r.error # ""
    IN [downloaded |-> n(isDownloaded), skipped |-> n(isSkipped),
        errors |-> n(isError), total |-> Len(results)]

----------------------------------------------------------------------------
(* youtube.py: YouTubeDownloader *)

\* _download_single that registers the found file again when it skips
DownloadSingleEffect_skip_registers(vid, outDir, plName, probe, fetch, tag, save) ==
    LET title == VideoTitle(vid)
        hit == find_song_by_video_id(tags, vid)
        dir == IF outDir = NoDir THEN DirSingles ELSE outDir
        final_path == FilePath(dir, sanitize_filename(title))
        fetched == (final_path :> NoTag) @@ tags
        tagged == IF tag = "ok" THEN (final_path :> vid) @@ tags ELSE fetched
        reg == RegisterEffect(memValid, mem, diskKind, diskSongs, vid,
                              MkSong(title, "u", "youtube", final_path, plName, clock), save)
        again == RegisterEffect(memValid, mem, diskKind, diskSongs, vid,
                                MkSong(title, "u", "youtube", hit.path, plName, clock), "ok")
        same == [ret |-> "", desc |-> MkDesc(vid, FALSE, "", NoPath), tags |-> tags,
                 songs |-> mem, kind |-> diskKind, dsongs |-> diskSongs,
                 completed |-> FALSE]
    IN IF probe # "ok" THEN [same EXCEPT !.ret = "YouTubeDownloadError:probe"]
       ELSE IF hit.found
       THEN [same EXCEPT !.ret = "skipped", !.desc = MkDesc(vid, TRUE, "", hit.path),
                         !.songs = again.songs, !.kind = again.kind, !.dsongs = again.dsongs]
       ELSE IF fetch # "ok"
       THEN [same EXCEPT !.ret = "YouTubeDownloadError:fetch"]
       ELSE [ret |-> IF reg.ret = "ok" THEN "downloaded" ELSE reg.ret,
             desc |-> MkDesc(vid, FALSE, "", final_path),
             tags |-> tagged, songs |-> reg.songs, kind |-> reg.kind,
             dsongs |-> reg.dsongs, completed |-> tag = "ok" /\ reg.ret = "ok"]

\* _download_single under the given outcomes of the metadata probe, the
\* fetch, the tag write and the ledger write: what it returns or raises and
\* what it leaves in the music directory and in the ledger
DownloadSingleEffect(vid, outDir, plName, probe, fetch, tag, save) ==
    LET title == VideoTitle(vid)
        hit == find_song_by_video_id(tags, vid)
        dir == IF outDir = NoDir THEN DirSingles ELSE outDir
        final_path == FilePath(dir, sanitize_filename(title))
        fetched == (final_path :> NoTag) @@ tags
        tagged == IF tag = "ok" THEN (final_path :> vid) @@ tags ELSE fetched
        reg == RegisterEffect(memValid, mem, diskKind, diskSongs, vid,
                              MkSong(title, "u", "youtube", final_path, plName, clock), save)
        same == [ret |-> "", desc |-> MkDesc(vid, FALSE, "", NoPath), tags |-> tags,
                 songs |-> mem, kind |-> diskKind, dsongs |-> diskSongs,
                 completed |-> FALSE]
    IN IF probe # "ok" THEN [same EXCEPT !.ret = "YouTubeDownloadError:probe"]
       ELSE IF hit.found
       THEN [same EXCEPT !.ret = "skipped", !.desc = MkDesc(vid, TRUE, "", hit.path)]
       ELSE IF fetch # "ok"
       THEN [same EXCEPT !.ret = "YouTubeDownloadError:fetch"]
       ELSE [ret |-> IF reg.ret = "ok" THEN "downloaded" ELSE reg.ret,
             desc |-> MkDesc(vid, FALSE, "", final_path),
             tags |-> tagged, songs |-> reg.songs, kind |-> reg.kind,
             dsongs |-> reg.dsongs, completed |-> tag = "ok" /\ reg.ret = "ok"]

\* the state left by a call of _download_single
ApplySingle(vid, e) ==
    /\ tags' = e.tags
    /\ mem' = e.songs
    /\ diskKind' = e.kind
    /\ diskSongs' = e.dsongs
    /\ completed' = IF e.completed THEN completed \cup {vid} ELSE completed
    /\ UNCHANGED <<memValid, clock, unitVars>>

\* the exceptions the batch loop catches per reference: none in the command
\* line loop, YouTubeDownloadError in the Qt worker
BatchCatches(kind, ret) == kind = "qt" /\ IsYouTubeDownloadError(ret)

\* the member loop catching YouTubeDownloadError only
MemberCatches_download_errors_only(ret) == IsYouTubeDownloadError(ret)

\* the exceptions the playlist loop catches per member: except Exception
MemberCatches(ret) == TRUE

\* the batch loop: a new DownloadCache (command line) or the window's one
\* (Qt), then one download per reference
StartRun(kind, platform, urls, name) ==
    /\ run.status # "running"
    /\ kind = "qt" => platform = "youtube"
    /\ (kind = "cli" /\ Len(urls) > 1) => name # None
    /\ IF kind = "cli"
       THEN LET l == _load(diskKind, diskSongs)
            IN memValid' = l.valid /\ mem' = l.songs
       ELSE UNCHANGED <<memValid, mem>>
    /\ run' = [IdleRun EXCEPT !.status = "running", !.kind = kind,
                              !.platform = platform, !.urls = urls, !.name = name]
    /\ last' = MkLast("start", "", "ok", NoPath)
    /\ UNCHANGED <<diskKind, diskSongs, clock, tags, completed, unitVars>>

\* the reference the batch loop is at
CurrentRef == run.urls[run.idx]

\* the loop going on to the next reference whatever _is_cancelled holds
AtReference_ignores_cancel(platform) ==
    /\ run.status = "running"
    /\ run.platform = platform
    /\ run.member = 0
    /\ run.idx <= Len(run.urls)

\* the loop is at a reference and not inside a collection
AtReference(platform) ==
    /\ run.status = "running"
    /\ run.platform = platform
    /\ run.member = 0
    /\ run.idx <= Len(run.urls)
    /\ ~run.cancelled

\* download(url) of a video reference
YtSingleRef(probe, fetch, tag, save) ==
    /\ AtReference("youtube")
    /\ ~is_playlist_url(CurrentRef)
    /\ CurrentRef \in UnknownRefs => probe = "fail"
    /\ LET vid == CurrentRef
           e == DownloadSingleEffect(vid, OutDir, run.name, probe, fetch, tag, save)
       IN /\ ApplySingle(vid, e)
          /\ last' = MkLast("single", vid, e.ret, e.desc.path)
          /\ run' = IF Returned(e.ret)
                    THEN [run EXCEPT !.results = Append(@, e.desc), !.idx = @ + 1]
                    ELSE IF BatchCatches(run.kind, e.ret)
                    THEN [run EXCEPT !.results = Append(@, MkDesc(vid, FALSE, e.ret, NoPath)),
                                     !.idx = @ + 1]
                    ELSE [run EXCEPT !.status = "failed", !.raised = e.ret]

\* download(url) of a playlist reference, up to the member loop
YtPlaylistStart(resolve) ==
    /\ AtReference("youtube")
    /\ is_playlist_url(CurrentRef)
    /\ CurrentRef \in UnknownRefs => resolve = "fail"
    /\ run' = IF resolve # "ok"
              THEN [run EXCEPT !.status = "failed", !.raised = "DownloadError"]
              ELSE IF PlaylistEntries(CurrentRef) = <<>>
              THEN [run EXCEPT !.idx = @ + 1]
              ELSE [run EXCEPT !.member = 1,
                               !.plName = IF run.name = None
                                          THEN sanitize_filename(PlaylistTitle(CurrentRef))
                                          ELSE run.name]
    /\ last' = MkLast("playlist", CurrentRef, IF resolve = "ok" THEN "ok" ELSE "DownloadError",
                      NoPath)
    /\ UNCHANGED <<memValid, mem, diskKind, diskSongs, clock, tags, completed, unitVars>>

\* playlist_dir
PlaylistDir == IF OutDir = NoDir THEN DirPlaylist(run.plName) ELSE OutDir

\* the run after the member at run.member of a collection of n members
AfterMember(r, n) ==
    IF r.member >= n
    THEN [r EXCEPT !.member = 0, !.page = 1, !.plName = None, !.idx = @ + 1]
    ELSE [r EXCEPT !.member = @ + 1]

\* one iteration of the member loop of _download_playlist
YtPlaylistMember(probe, fetch, tag, save) ==
    /\ run.status = "running"
    /\ run.platform = "youtube"
    /\ run.member >= 1
    /\ LET entries == PlaylistEntries(CurrentRef)
           vid == entries[run.member]
           e == DownloadSingleEffect(vid, PlaylistDir, run.plName, probe, fetch, tag, save)
       IN IF vid = "none"
          THEN /\ run' = AfterMember(run, Len(entries))
               /\ last' = MkLast("member", vid, "continue", NoPath)
               /\ UNCHANGED <<memValid, mem, diskKind, diskSongs, clock, tags, completed, unitVars>>
          ELSE /\ ApplySingle(vid, e)
               /\ last' = MkLast("member", vid, e.ret, e.desc.path)
               /\ run' = IF Returned(e.ret)
                         THEN AfterMember([run EXCEPT !.results = Append(@, e.desc)],
                                          Len(entries))
                         ELSE IF MemberCatches(e.ret)
                         THEN AfterMember([run EXCEPT !.results =
                                              Append(@, MkDesc(vid, FALSE, e.ret, NoPath))],
                                          Len(entries))
                         ELSE [run EXCEPT !.status = "failed", !.raised = e.ret]

\* the end of the batch loop: the summary is computed and reported
Finish ==
    /\ run.status = "running"
    /\ run.member = 0
    /\ run.idx > Len(run.urls)
    /\ run' = [run EXCEPT !.status = "done"]
    /\ last' = MkLast("finish", "", "ok", NoPath)
    /\ UNCHANGED <<memValid, mem, diskKind, diskSongs, clock, tags, completed, unitVars>>

----------------------------------------------------------------------------
(* ui/workers.py: cancellation of the Qt worker *)

\* DownloadWorker.cancel(), called by the window while the worker runs
Cancel ==
    /\ run.status = "running"
    /\ run.kind = "qt"
    /\ ~run.cancelled
    /\ run' = [run EXCEPT !.cancelled = TRUE]
    /\ last' = MkLast("cancel", "", "ok", NoPath)
    /\ UNCHANGED <<memValid, mem, diskKind, diskSongs, clock, tags, completed, unitVars>>

\* the check of _is_cancelled at the top of the loop over the references:
\* the worker returns without a summary
CancelStop ==
    /\ run.status = "running"
    /\ run.cancelled
    /\ run.member = 0
    /\ run.idx <= Len(run.urls)
    /\ run' = [run EXCEPT !.status = "cancelled"]
    /\ last' = MkLast("stop", "", "ok", NoPath)
    /\ UNCHANGED <<memValid, mem, diskKind, diskSongs, clock, tags, completed, unitVars>>

----------------------------------------------------------------------------
(* spotify.py: SpotifyHandler *)

\* track ids of the Spotify catalog
TrackIds == {"t1", "t2"}

\* playlist references of the Spotify catalog
SpotifyPlaylistIds == {"sp1"}

\* the pages of playlist['tracks']: track ids, "none" for an item without track
PlaylistPages(p) == << <<"t1", "none">>, <<"t2">> >>

\* f"spotify:{track_id}"
SpotifyKey(t) == IF t = "t1" THEN "spotify:t1" ELSE "spotify:t2"

\* _download_track whose Zotify placeholder returns an empty descriptor
\* instead of raising
DownloadTrackEffect_silent_success(tid, catalog) ==
    IF is_downloaded(memValid, mem, SpotifyKey(tid)).raised
    THEN [ret |-> "KeyError", desc |-> MkDesc(tid, FALSE, "", NoPath)]
    ELSE IF is_downloaded(memValid, mem, SpotifyKey(tid)).value
    THEN [ret |-> "skipped",
          desc |-> MkDesc(tid, TRUE, "", get_path(memValid, mem, SpotifyKey(tid)).value)]
    ELSE IF catalog # "ok"
    THEN [ret |-> "SpotifyException", desc |-> MkDesc(tid, FALSE, "", NoPath)]
    ELSE [ret |-> "downloaded", desc |-> MkDesc(tid, FALSE, "", NoPath)]

\* _download_track under the given outcome of the catalog call: the ledger
\* is asked first, then the catalog, then the Zotify placeholder raises
DownloadTrackEffect(tid, catalog) ==
    IF is_downloaded(memValid, mem, SpotifyKey(tid)).raised
    THEN [ret |-> "KeyError", desc |-> MkDesc(tid, FALSE, "", NoPath)]
    ELSE IF is_downloaded(memValid, mem, SpotifyKey(tid)).value
    THEN [ret |-> "skipped",
          desc |-> MkDesc(tid, TRUE, "", get_path(memValid, mem, SpotifyKey(tid)).value)]
    ELSE IF catalog # "ok"
    THEN [ret |-> "SpotifyException", desc |-> MkDesc(tid, FALSE, "", NoPath)]
    ELSE [ret |-> "AttributeError", desc |-> MkDesc(tid, FALSE, "", NoPath)]

\* the values os.getenv gives for a credential: None, empty, set
Credentials == {"<None>", "", "set"}

\* not client_id / not client_secret
Falsy(c) == c \in {"<None>", ""}

\* __init__ that looks at the client id only
SpotifyInit_checks_id_only(client_id, client_secret) ==
    IF Falsy(client_id) THEN "SpotifyConfigError" ELSE "ok"

\* SpotifyHandler.__init__: the exception it raises, "ok" when it returns
SpotifyInit(client_id, client_secret) ==
    IF Falsy(client_id) \/ Falsy(client_secret) THEN "SpotifyConfigError" ELSE "ok"

\* the command line batch on Spotify: the DownloadCache, then the handler
\* is constructed before the loop over the references
SpStart(client_id, client_secret, urls, name) ==
    IF SpotifyInit(client_id, client_secret) = "ok"
    THEN StartRun("cli", "spotify", urls, name)
    ELSE /\ run.status # "running"
         /\ Len(urls) > 1 => name # None
         /\ LET l == _load(diskKind, diskSongs)
            IN memValid' = l.valid /\ mem' = l.songs
         /\ run' = [IdleRun EXCEPT !.status = "failed", !.platform = "spotify",
                                   !.raised = "SpotifyConfigError"]
         /\ last' = MkLast("spotify_init", "", "SpotifyConfigError", NoPath)
         /\ UNCHANGED <<diskKind, diskSongs, clock, tags, completed, unitVars>>

\* download(url) of a track reference
SpTrackRef(catalog) ==
    /\ AtReference("spotify")
    /\ CurrentRef \in TrackIds
    /\ LET e == DownloadTrackEffect(CurrentRef, catalog)
       IN /\ last' = MkLast("track", CurrentRef, e.ret, e.desc.path)
          /\ run' = IF Returned(e.ret)
                    THEN [run EXCEPT !.results = Append(@, e.desc), !.idx = @ + 1]
                    ELSE [run EXCEPT !.status = "failed", !.raised = e.ret]
    /\ UNCHANGED <<memValid, mem, diskKind, diskSongs, clock, tags, completed, unitVars>>

\* download(url) of a playlist reference, up to the page loop
SpPlaylistStart(resolve) ==
    /\ AtReference("spotify")
    /\ CurrentRef \in SpotifyPlaylistIds
    /\ run' = IF resolve # "ok"
              THEN [run EXCEPT !.status = "failed", !.raised = "SpotifyException"]
              ELSE [run EXCEPT !.member = 1, !.page = 1,
                               !.plName = IF run.name = None
                                          THEN sanitize_filename(PlaylistTitle(CurrentRef))
                                          ELSE run.name]
    /\ last' = MkLast("playlist", CurrentRef,
                      IF resolve = "ok" THEN "ok" ELSE "SpotifyException", NoPath)
    /\ UNCHANGED <<memValid, mem, diskKind, diskSongs, clock, tags, completed, unitVars>>

\* one iteration of the item loop of _download_playlist
SpPlaylistMember(catalog) ==
    /\ run.status = "running"
    /\ run.platform = "spotify"
    /\ run.member >= 1
    /\ CurrentRef \in SpotifyPlaylistIds
    /\ run.member <= Len(PlaylistPages(CurrentRef)[run.page])
    /\ LET tid == PlaylistPages(CurrentRef)[run.page][run.member]
           e == DownloadTrackEffect(tid, catalog)
       IN IF tid = "none"
          THEN /\ run' = [run EXCEPT !.member = @ + 1]
               /\ last' = MkLast("member", tid, "continue", NoPath)
          ELSE /\ last' = MkLast("member", tid, e.ret, e.desc.path)
               /\ run' = IF Returned(e.ret)
                         THEN [run EXCEPT !.results = Append(@, e.desc), !.member = @ + 1]
                         ELSE IF MemberCatches(e.ret)
                         THEN [run EXCEPT !.results =
                                              Append(@, MkDesc(tid, FALSE, e.ret, NoPath)),
                                          !.member = @ + 1]
                         ELSE [run EXCEPT !.status = "failed", !.raised = e.ret]
    /\ UNCHANGED <<memValid, mem, diskKind, diskSongs, clock, tags, completed, unitVars>>

\* the page loop that never asks the catalog for the next page
SpPageEnd_first_page_only(next) ==
    /\ run.status = "running"
    /\ run.platform = "spotify"
    /\ run.member >= 1
    /\ CurrentRef \in SpotifyPlaylistIds
    /\ run.member > Len(PlaylistPages(CurrentRef)[run.page])
    /\ run' = [run EXCEPT !.member = 0, !.page = 1, !.plName = None, !.idx = @ + 1]
    /\ last' = MkLast("page", CurrentRef, "ok", NoPath)
    /\ UNCHANGED <<memValid, mem, diskKind, diskSongs, clock, tags, completed, unitVars>>

\* the end of a page: the next page is asked of the catalog, or the loop ends
SpPageEnd(next) ==
    /\ run.status = "running"
    /\ run.platform = "spotify"
    /\ run.member >= 1
    /\ CurrentRef \in SpotifyPlaylistIds
    /\ run.member > Len(PlaylistPages(CurrentRef)[run.page])
    /\ run' = IF run.page < Len(PlaylistPages(CurrentRef))
              THEN IF next = "ok"
                   THEN [run EXCEPT !.page = @ + 1, !.member = 1]
                   ELSE [run EXCEPT !.status = "failed", !.raised = "SpotifyException"]
              ELSE [run EXCEPT !.member = 0, !.page = 1, !.plName = None, !.idx = @ + 1]
    /\ last' = MkLast("page", CurrentRef, "ok", NoPath)
    /\ UNCHANGED <<memValid, mem, diskKind, diskSongs, clock, tags, completed, unitVars>>

\* album references of the Spotify catalog
AlbumIds == {"al1"}

\* the pages of the tracks of an album: album['tracks'] is the first page
AlbumPages(al) == << <<"t1">>, <<"t2">> >>

\* album['tracks']['items']: the items of the first page
AlbumItems(al) == AlbumPages(al)[1]

\* f"{artist} - {fixed_name}": the artist as the catalog gives it
AlbumDirName(al) == <<"u", " ", "-", " ">> \o sanitize_filename(NameA)

\* download(url) of an album reference, up to the loop over the tracks
SpAlbumStart(resolve) ==
    /\ AtReference("spotify")
    /\ CurrentRef \in AlbumIds
    /\ run' = IF resolve # "ok"
              THEN [run EXCEPT !.status = "failed", !.raised = "SpotifyException"]
              ELSE [run EXCEPT !.member = 1, !.page = 1,
                               !.plName = IF run.name = None THEN AlbumDirName(CurrentRef)
                                          ELSE run.name]
    /\ last' = MkLast("album", CurrentRef,
                      IF resolve = "ok" THEN "ok" ELSE "SpotifyException", NoPath)
    /\ UNCHANGED <<memValid, mem, diskKind, diskSongs, clock, tags, completed, unitVars>>

\* one iteration of the loop of _download_album: the arguments of
\* _download_track name album_name, which is not defined, so the call is
\* never made and the NameError is caught by except Exception
SpAlbumMember ==
    /\ run.status = "running"
    /\ run.platform = "spotify"
    /\ run.member >= 1
    /\ CurrentRef \in AlbumIds
    /\ LET tid == AlbumItems(CurrentRef)[run.member]
       IN /\ last' = MkLast("album_member", tid, "NameError", NoPath)
          /\ run' = AfterMember([run EXCEPT !.results =
                                     Append(@, MkDesc(tid, FALSE, "NameError", NoPath))],
                                Len(AlbumItems(CurrentRef)))
    /\ UNCHANGED <<memValid, mem, diskKind, diskSongs, clock, tags, completed, unitVars>>

\* download(url) of a URL that holds none of /playlist/, /track/, /album/
SpUnsupportedRef ==
    /\ AtReference("spotify")
    /\ CurrentRef \notin TrackIds \cup SpotifyPlaylistIds \cup AlbumIds
    /\ run' = [run EXCEPT !.status = "failed", !.raised = "SpotifyDownloadError"]
    /\ last' = MkLast("unsupported", CurrentRef, "SpotifyDownloadError", NoPath)
    /\ UNCHANGED <<memValid, mem, diskKind, diskSongs, clock, tags, completed, unitVars>>

----------------------------------------------------------------------------
(* zotify_downloader.py: ZotifyDownloader *)

\* a ZotifyDownloader that was never called
IdleZotify ==
    [calls |-> 0, procs |-> 0, cmd |-> <<>>, tool |-> "", ret |-> "", descs |-> 0,
     skipped |-> FALSE]

\* cmd: the command line handed to subprocess.run
ZotifyCmd(url, dir) ==
    <<"zotify", url, "--output", dir, "--download-format", "mp3",
      "--download-quality", "320">>

\* references handed to the downloader
ZotifyUrls == {"track/1", "track/2", "playlist/1"}

\* how subprocess.run(cmd, check=True) ends: exit status 0, a non-zero exit
\* status (CalledProcessError), or no zotify executable (FileNotFoundError)
ToolOutcomes == {"ok", "exit_failure", "not_found"}

\* download_track with check=False: the exit status of the tool is ignored
ZotifyTrackEffect_unchecked(dir, tool) ==
    CASE tool = "not_found" ->
             [ret |-> "FileNotFoundError", descs |-> 0, skipped |-> FALSE, path |-> NoPath]
      [] OTHER ->
             [ret |-> "returned", descs |-> 1, skipped |-> FALSE,
              path |-> FilePath(dir, <<"placeholder">>)]

\* download_track: what it returns or raises under the given end of the tool
ZotifyTrackEffect(dir, tool) ==
    CASE tool = "ok" ->
             [ret |-> "returned", descs |-> 1, skipped |-> FALSE,
              path |-> FilePath(dir, <<"placeholder">>)]
      [] tool = "exit_failure" ->
             [ret |-> "RuntimeError: Zotify download failed", descs |-> 0,
              skipped |-> FALSE, path |-> NoPath]
      [] OTHER ->
             [ret |-> "FileNotFoundError", descs |-> 0, skipped |-> FALSE, path |-> NoPath]

\* download_playlist: what it returns or raises under the given end of the tool
ZotifyPlaylistEffect(dir, tool) ==
    CASE tool = "ok" ->
             [ret |-> "returned", descs |-> 1, skipped |-> FALSE,
              path |-> FilePath(dir, <<>>)]
      [] tool = "exit_failure" ->
             [ret |-> "RuntimeError: Zotify playlist download failed", descs |-> 0,
              skipped |-> FALSE, path |-> NoPath]
      [] OTHER ->
             [ret |-> "FileNotFoundError", descs |-> 0, skipped |-> FALSE, path |-> NoPath]

\* the downloader after a call that ran the external tool once
AfterTool(cmd, e, tool) ==
    [calls |-> zot.calls + 1, procs |-> zot.procs + 1, cmd |-> cmd, tool |-> tool,
     ret |-> e.ret, descs |-> e.descs, skipped |-> e.skipped]

\* ZotifyDownloader.download_track(track_url, output_dir, playlist_name)
ZotifyDownloadTrack(url, dir, tool) ==
    /\ zot.calls < MaxCalls
    /\ LET e == ZotifyTrackEffect(dir, tool)
       IN /\ zot' = AfterTool(ZotifyCmd(url, dir), e, tool)
          /\ last' = MkLast("zotify_track", url, e.ret, e.path)
    /\ UNCHANGED <<ledgerVars, clock, pipeVars, text, gui, thr, scan>>

\* ZotifyDownloader.download_playlist(playlist_url, output_dir, playlist_name)
ZotifyDownloadPlaylist(url, dir, tool) ==
    /\ zot.calls < MaxCalls
    /\ LET e == ZotifyPlaylistEffect(dir, tool)
       IN /\ zot' = AfterTool(ZotifyCmd(url, dir), e, tool)
          /\ last' = MkLast("zotify_playlist", url, e.ret, e.path)
    /\ UNCHANGED <<ledgerVars, clock, pipeVars, text, gui, thr, scan>>

\* the downloader called by arbitrary callers
ZotifyNext ==
    \/ \E url \in ZotifyUrls, dir \in {DirSingles, DirPlaylist(NameP)}, tool \in ToolOutcomes :
          ZotifyDownloadTrack(url, dir, tool)
    \/ \E url \in ZotifyUrls, dir \in {DirSingles, DirPlaylist(NameP)}, tool \in ToolOutcomes :
          ZotifyDownloadPlaylist(url, dir, tool)

\* no name handed to sanitize_filename
NoText == [given |-> <<>>, result |-> <<>>, done |-> FALSE]

\* the reconciler was not called
NoScan == [op |-> "none", id |-> "", songs |-> <<>>, found |-> FALSE, path |-> NoPath]

\* a window that started no download
IdleGui == [app |-> "qt", threads |-> <<>>, log |-> <<>>]

\* no thread is inside a ledger mutation
IdleThreads == [pc |-> <<>>, buf |-> <<>>, flen |-> 0]

----------------------------------------------------------------------------
(* The ledger used on its own by arbitrary callers *)

Init ==
    /\ memValid = TRUE
    /\ mem = EmptySongs
    /\ diskKind = "missing"
    /\ diskSongs = EmptySongs
    /\ clock = 0
    /\ tags = NoFiles
    /\ run = IdleRun
    /\ completed = {}
    /\ text = NoText
    /\ zot = IdleZotify
    /\ gui = IdleGui
    /\ thr = IdleThreads
    /\ scan = NoScan
    /\ last = MkLast("construct", "", "ok", NoPath)

LedgerNext ==
    \/ Construct
    \/ \E id \in SongIds, path \in PathChoices, pl \in {None, NameP}, o \in SaveOutcomes :
          Register(id, NameA, IF id = "spotify:t1" THEN "spotify" ELSE "youtube", path, pl, o)
    \/ \E id \in SongIds, o \in SaveOutcomes : Remove(id, o)
    \/ \E id \in SongIds, path \in {NoPath, MkPath("playlists", NameB, NameA)},
          pl \in {None, NameB},
          o \in SaveOutcomes : UpdateSong(id, path, pl, o)
    \/ \E o \in SaveOutcomes : Clear(o)
    \/ ExternalDelete
    \/ \E k \in {"garbage", "nosongs"} : ExternalWrite(k)

SpecLedger == Init /\ [][LedgerNext]_vars

SpecZotify == Init /\ [][ZotifyNext]_vars

----------------------------------------------------------------------------
(* sanitize_filename applied to arbitrary names *)

\* characters of the names handed in: a letter, two kinds of whitespace and
\* an illegal character
NameChars == {"a", " ", "\t", "?"}

\* longest name handed in: one character more than the truncation keeps
MaxGivenLen == MaxNameLen + 1

\* the names handed in
GivenNames == UNION {[1..n -> NameChars] : n \in 0..MaxGivenLen}

\* sanitize_filename(name) called on the name at hand
Sanitize ==
    /\ ~text.done
    /\ text' = [given |-> text.given, result |-> sanitize_filename(text.given),
                done |-> TRUE]
    /\ last' = MkLast("sanitize", "", "ok", NoPath)
    /\ UNCHANGED <<ledgerVars, clock, pipeVars, zot, gui, thr, scan>>

InitSanitize ==
    /\ memValid = TRUE
    /\ mem = EmptySongs
    /\ diskKind = "missing"
    /\ diskSongs = EmptySongs
    /\ clock = 0
    /\ tags = NoFiles
    /\ run = IdleRun
    /\ completed = {}
    /\ text \in {[given |-> g, result |-> <<>>, done |-> FALSE] : g \in GivenNames}
    /\ zot = IdleZotify
    /\ gui = IdleGui
    /\ thr = IdleThreads
    /\ scan = NoScan
    /\ last = MkLast("construct", "", "ok", NoPath)

SpecSanitize == InitSanitize /\ [][Sanitize]_vars

----------------------------------------------------------------------------
(* The program: batches from the command line and from the Qt window, the
   ledger commands, and the backing file changed from outside *)

\* the reference lists handed to a batch, per platform: one URL, or the
\* lines of a file
RefLists(platform) ==
    IF platform = "youtube"
    THEN {<<"v2">>, <<"p1">>, <<"v1", "v1">>, <<"v1", "v2", "v1">>}
    ELSE {<<"t1">>, <<"sp1">>}

Next ==
    \/ \E kind \in {"cli", "qt"}, platform \in {"youtube", "spotify"},
          name \in {None, NameP} :
          \E urls \in RefLists(platform) : StartRun(kind, platform, urls, name)
    \/ \E probe \in Outcomes, fetch \in Outcomes, tag \in Outcomes, save \in BatchSaveOutcomes :
          YtSingleRef(probe, fetch, tag, save)
    \/ \E resolve \in Outcomes : YtPlaylistStart(resolve)
    \/ \E probe \in Outcomes, fetch \in Outcomes, tag \in Outcomes, save \in BatchSaveOutcomes :
          YtPlaylistMember(probe, fetch, tag, save)
    \/ \E catalog \in Outcomes : SpTrackRef(catalog)
    \/ \E resolve \in Outcomes : SpPlaylistStart(resolve)
    \/ \E catalog \in Outcomes : SpPlaylistMember(catalog)
    \/ \E next \in Outcomes : SpPageEnd(next)
    \/ Finish
    \/ Cancel
    \/ CancelStop
    \/ (run.status # "running" /\ Construct)
    \/ \E o \in BatchSaveOutcomes : Clear(o)
    \/ ExternalDelete

Spec == Init /\ [][Next]_vars

----------------------------------------------------------------------------
(* Batches whose destination name is typed by the user *)

NextNamed ==
    \/ \E kind \in {"cli", "qt"}, name \in {None, NameRaw}, urls \in {<<"v2">>, <<"p1">>} :
          StartRun(kind, "youtube", urls, name)
    \/ \E probe \in Outcomes, fetch \in Outcomes, tag \in Outcomes, save \in BatchSaveOutcomes :
          YtSingleRef(probe, fetch, tag, save)
    \/ \E resolve \in Outcomes : YtPlaylistStart(resolve)
    \/ \E probe \in Outcomes, fetch \in Outcomes, tag \in Outcomes, save \in BatchSaveOutcomes :
          YtPlaylistMember(probe, fetch, tag, save)
    \/ Finish

SpecNamed == Init /\ [][NextNamed]_vars

----------------------------------------------------------------------------
(* Batches of one reference of every shape, on both platforms *)

\* a record of a Spotify track in the ledger
SpotifyRecord ==
    MkSong(NameA, "u", "spotify", MkPath("playlists", NameP, NameA), NameP, 0)

\* the ledger is empty, or its backing file holds one or two Spotify tracks
InitShapes ==
    /\ memValid = TRUE
    /\ mem = EmptySongs
    /\ \/ diskKind = "missing" /\ diskSongs = EmptySongs
       \/ diskKind = "store" /\ diskSongs = ("spotify:t1" :> SpotifyRecord)
       \/ diskKind = "store" /\ diskSongs = ("spotify:t1" :> SpotifyRecord) @@
                                            ("spotify:t2" :> SpotifyRecord)
    /\ clock = 0
    /\ tags = NoFiles
    /\ run = IdleRun
    /\ completed = {}
    /\ text = NoText
    /\ zot = IdleZotify
    /\ gui = IdleGui
    /\ thr = IdleThreads
    /\ scan = NoScan
    /\ last = MkLast("construct", "", "ok", NoPath)

\* the references handed to the Spotify adapter: track, playlist, album,
\* other, and a file of two lines
SpotifyShapes == {<<"t1">>, <<"sp1">>, <<"al1">>, <<"bad">>, <<"sp1", "al1">>}

\* the references handed to the YouTube adapter
YouTubeShapes == {<<"v2">>, <<"p1">>, <<"bad">>, <<"bad?list=">>}

NextSpotify ==
    \/ \E client_id \in Credentials, client_secret \in Credentials,
          urls \in SpotifyShapes, name \in {None, NameP} :
          SpStart(client_id, client_secret, urls, name)
    \/ \E catalog \in Outcomes : SpTrackRef(catalog)
    \/ \E resolve \in Outcomes : SpPlaylistStart(resolve)
    \/ \E catalog \in Outcomes : SpPlaylistMember(catalog)
    \/ \E next \in Outcomes : SpPageEnd(next)
    \/ \E resolve \in Outcomes : SpAlbumStart(resolve)
    \/ SpAlbumMember
    \/ SpUnsupportedRef
    \/ Finish

SpecSpotify == InitShapes /\ [][NextSpotify]_vars

\* the loop of a batch keeps running until the batch ends
SpecSpotifyFair == SpecSpotify /\ WF_vars(NextSpotify)

NextShapes ==
    \/ NextSpotify
    \/ \E kind \in {"cli", "qt"}, urls \in YouTubeShapes : StartRun(kind, "youtube", urls, None)
    \/ \E probe \in Outcomes, fetch \in Outcomes, tag \in Outcomes, save \in BatchSaveOutcomes :
          YtSingleRef(probe, fetch, tag, save)
    \/ \E resolve \in Outcomes : YtPlaylistStart(resolve)
    \/ \E probe \in Outcomes, fetch \in Outcomes, tag \in Outcomes, save \in BatchSaveOutcomes :
          YtPlaylistMember(probe, fetch, tag, save)

SpecShapes == InitShapes /\ [][NextShapes]_vars

----------------------------------------------------------------------------
(* ui/main_window.py and ui/workers.py: one DownloadWorker and the window *)

\* the batches started in one session of the window
MaxBatches == 2

\* the window before a batch: download controls enabled, no notification handled
IdleWindow ==
    [app |-> "qt", controls |-> TRUE, window |-> "open", handled |-> "", batches |-> 0]

\* the references typed into the download panel
WorkerRefLists == {<<"v2">>, <<"p1">>, <<"bad", "v1">>}

\* QThread.isRunning() of the current worker
isRunning == run.kind = "qt" /\ run.status = "running"

\* the run of the worker has returned
Terminated == run.kind = "qt" /\ run.status \in {"done", "failed", "cancelled"}

\* the terminal signals run() has emitted: download_complete after the
\* summary, download_error from the outer except, none on the cancelled return
Emitted ==
    CASE run.kind = "qt" /\ run.status = "done" -> {"download_complete"}
      [] run.kind = "qt" /\ run.status = "failed" -> {"download_error"}
      [] OTHER -> {}

\* _start_download: refuses while a worker runs, disables the controls,
\* creates the worker on the window's ledger and starts it
StartDownload(urls) ==
    /\ gui.window = "open"
    /\ gui.controls
    /\ ~isRunning
    /\ gui.batches < MaxBatches
    /\ gui' = [gui EXCEPT !.controls = FALSE, !.handled = "", !.batches = @ + 1]
    /\ run' = [IdleRun EXCEPT !.status = "running", !.kind = "qt", !.urls = urls]
    /\ last' = MkLast("start_download", "", "ok", NoPath)
    /\ UNCHANGED <<ledgerVars, clock, tags, completed, text, zot, thr, scan>>

\* _on_download_complete, run by the event loop of the window
OnDownloadComplete ==
    /\ gui.window = "open"
    /\ gui.handled = ""
    /\ "download_complete" \in Emitted
    /\ gui' = [gui EXCEPT !.controls = TRUE, !.handled = "download_complete"]
    /\ last' = MkLast("on_complete", "", "ok", NoPath)
    /\ UNCHANGED <<ledgerVars, clock, pipeVars, text, zot, thr, scan>>

\* _on_download_error, run by the event loop of the window
OnDownloadError ==
    /\ gui.window = "open"
    /\ gui.handled = ""
    /\ "download_error" \in Emitted
    /\ gui' = [gui EXCEPT !.controls = TRUE, !.handled = "download_error"]
    /\ last' = MkLast("on_error", "", "ok", NoPath)
    /\ UNCHANGED <<ledgerVars, clock, pipeVars, text, zot, thr, scan>>

\* closeEvent while the worker runs, answered Yes: cancel(), then wait()
CloseEvent ==
    /\ gui.window = "open"
    /\ isRunning
    /\ gui' = [gui EXCEPT !.window = "waiting"]
    /\ run' = [run EXCEPT !.cancelled = TRUE]
    /\ last' = MkLast("close", "", "ok", NoPath)
    /\ UNCHANGED <<ledgerVars, clock, tags, completed, text, zot, thr, scan>>

\* wait() returns once run() has returned, and the close is accepted
CloseAccepted ==
    /\ gui.window = "waiting"
    /\ Terminated
    /\ gui' = [gui EXCEPT !.window = "closed"]
    /\ last' = MkLast("closed", "", "ok", NoPath)
    /\ UNCHANGED <<ledgerVars, clock, pipeVars, text, zot, thr, scan>>

InitWorker ==
    /\ memValid = TRUE
    /\ mem = EmptySongs
    /\ diskKind = "missing"
    /\ diskSongs = EmptySongs
    /\ clock = 0
    /\ tags = NoFiles
    /\ run = IdleRun
    /\ completed = {}
    /\ text = NoText
    /\ zot = IdleZotify
    /\ gui = IdleWindow
    /\ thr = IdleThreads
    /\ scan = NoScan
    /\ last = MkLast("construct", "", "ok", NoPath)

WorkerNext ==
    \/ \E urls \in WorkerRefLists : StartDownload(urls)
    \/ \E probe \in Outcomes, fetch \in Outcomes, tag \in Outcomes, save \in BatchSaveOutcomes :
          YtSingleRef(probe, fetch, tag, save)
    \/ \E resolve \in Outcomes : YtPlaylistStart(resolve)
    \/ \E probe \in Outcomes, fetch \in Outcomes, tag \in Outcomes, save \in BatchSaveOutcomes :
          YtPlaylistMember(probe, fetch, tag, save)
    \/ Finish
    \/ CancelStop
    \/ OnDownloadComplete
    \/ OnDownloadError
    \/ CloseEvent
    \/ CloseAccepted

SpecWorker == InitWorker /\ [][WorkerNext]_vars

\* run() keeps running on its thread and the event loop keeps delivering
SpecWorkerFair == SpecWorker /\ WF_vars(WorkerNext)

----------------------------------------------------------------------------
(* ui/main_window.py: the library panel, delete and move *)

\* the tree without the file at path p
WithoutFile(t, p) == [q \in DOMAIN t \ {p} |-> t[q]]

\* _on_delete_song_requested(song_id): the record is looked up in the
\* ledger, its file removed when it exists, then the record removed; any
\* exception ends in a message box
DeleteSong(id, outcome) ==
    /\ memValid
    /\ IF id \notin DOMAIN mem
       THEN /\ last' = MkLast("delete", id, "not_found", NoPath)
            /\ UNCHANGED <<mem, diskKind, diskSongs, tags>>
       ELSE LET e == RemoveEffect(memValid, mem, diskKind, diskSongs, id, outcome)
            IN /\ tags' = WithoutFile(tags, mem[id].path)
               /\ mem' = e.songs
               /\ diskKind' = e.kind
               /\ diskSongs' = e.dsongs
               /\ last' = MkLast("delete", id, e.ret, mem[id].path)
    /\ UNCHANGED <<memValid, clock, run, completed, unitVars>>

\* _on_move_song_requested(song_id, new_playlist): the file of the record is
\* moved to music/playlists/<new_playlist>/<same name>, replacing a file of
\* that name, then the record is updated
MoveSong(id, new_playlist, outcome) ==
    /\ memValid
    /\ IF id \notin DOMAIN mem
       THEN /\ last' = MkLast("move", id, "not_found", NoPath)
            /\ UNCHANGED <<mem, diskKind, diskSongs, tags>>
       ELSE IF mem[id].path \notin DOMAIN tags
       THEN /\ last' = MkLast("move", id, "no_file", mem[id].path)
            /\ UNCHANGED <<mem, diskKind, diskSongs, tags>>
       ELSE LET old_path == mem[id].path
                new_path == FilePath(DirPlaylist(new_playlist), old_path.name)
                e == UpdateEffect(memValid, mem, diskKind, diskSongs, id, new_path,
                                  new_playlist, outcome)
            IN /\ tags' = (new_path :> tags[old_path]) @@ WithoutFile(tags, old_path)
               /\ mem' = e.songs
               /\ diskKind' = e.kind
               /\ diskSongs' = e.dsongs
               /\ last' = MkLast("move", id, e.ret, new_path)
    /\ UNCHANGED <<memValid, clock, run, completed, unitVars>>

\* batches of the window, and the two requests of the library panel
LibraryNext ==
    \/ \E urls \in {<<"v1">>, <<"v2">>} : StartRun("qt", "youtube", urls, None)
    \/ \E probe \in Outcomes, fetch \in Outcomes, tag \in Outcomes, save \in BatchSaveOutcomes :
          YtSingleRef(probe, fetch, tag, save)
    \/ Finish
    \/ \E id \in VideoIds, o \in BatchSaveOutcomes : DeleteSong(id, o)
    \/ \E id \in VideoIds, pl \in {NameB, NameP}, o \in BatchSaveOutcomes : MoveSong(id, pl, o)

SpecLibrary == Init /\ [][LibraryNext]_vars

----------------------------------------------------------------------------
(* filesystem.py called on arbitrary music directories *)

\* the places an .mp3 file can be at: in two playlists, in singles, in the
\* root, directly in music/playlists, and one level below a playlist
ScanPaths ==
    {MkPath("playlists", NameA, NameA), MkPath("playlists", NameB, NameA),
     MkPath("singles", <<>>, NameA), MkPath("root", <<>>, NameA),
     MkPath("playlists", <<>>, NameA), MkPath("nested", NameA, NameA)}

\* what get_video_id_from_mp3 gives for a file: None, the empty text, an id
TagValues == {NoTag, "", "v1"}

\* the music directories: any set of the places, any tag in each file
FileTrees == UNION {[S -> TagValues] : S \in SUBSET ScanPaths}

\* the ids the adapters look up: info.get('id', '') of the probe
LookupIds == {"", "v1", "v2"}

\* scan_all_songs(music_dir)
ScanAll ==
    /\ scan' = [NoScan EXCEPT !.op = "scan_all", !.songs = scan_all_songs(tags)]
    /\ last' = MkLast("scan_all", "", "ok", NoPath)
    /\ UNCHANGED <<ledgerVars, clock, pipeVars, text, zot, gui, thr>>

\* find_song_by_video_id(music_dir, video_id)
FindSong(vid) ==
    /\ LET hit == find_song_by_video_id(tags, vid)
       IN scan' = [NoScan EXCEPT !.op = "find", !.id = vid, !.found = hit.found,
                                 !.path = hit.path]
    /\ last' = MkLast("find", vid, "ok", NoPath)
    /\ UNCHANGED <<ledgerVars, clock, pipeVars, text, zot, gui, thr>>

\* is_song_downloaded(music_dir, video_id)
IsSongDownloaded(vid) ==
    /\ scan' = [NoScan EXCEPT !.op = "is_downloaded", !.id = vid,
                              !.found = is_song_downloaded(tags, vid)]
    /\ last' = MkLast("is_downloaded", vid, "ok", NoPath)
    /\ UNCHANGED <<ledgerVars, clock, pipeVars, text, zot, gui, thr>>

InitScan ==
    /\ memValid = TRUE
    /\ mem = EmptySongs
    /\ diskKind = "missing"
    /\ diskSongs = EmptySongs
    /\ clock = 0
    /\ tags \in FileTrees
    /\ run = IdleRun
    /\ completed = {}
    /\ text = NoText
    /\ zot = IdleZotify
    /\ gui = IdleGui
    /\ thr = IdleThreads
    /\ scan = NoScan
    /\ last = MkLast("construct", "", "ok", NoPath)

ScanNext ==
    \/ ScanAll
    \/ \E vid \in LookupIds : FindSong(vid)
    \/ \E vid \in LookupIds : IsSongDownloaded(vid)

SpecScan == InitScan /\ [][ScanNext]_vars

----------------------------------------------------------------------------
(* filesystem.py: the metadata of one scanned file *)

\* longest file name stem handed to get_mp3_metadata
MaxStemLen == 5

\* the characters of the stems
StemChars == {"a", "b", " ", "-"}

\* the stems of the files
Stems == UNION {[1..n -> StemChars] : n \in 1..MaxStemLen}

\* an .mp3 file: its stem, whether it carries ID3 title/artist frames (and
\* which), and its TXXX:video_id
Mp3Files ==
    {[stem |-> st, tagged |-> tg, title |-> IF tg THEN NameB ELSE None,
      artist |-> IF tg THEN <<"u">> ELSE None, video_id |-> v] :
        st \in Stems, tg \in BOOLEAN, v \in {NoTag, "v1"}}

\* the positions at which " - " starts in a stem
SeparatorAt(st) ==
    {i \in 1..(Len(st) - 2) : SubSeq(st, i, i + 2) = <<" ", "-", " ">>}

\* an embedded id as the text the scan puts in metadata['id']
IdText(v) == IF v = NoTag THEN None ELSE <<v>>

\* get_mp3_metadata followed by metadata['id'] = metadata.get('video_id', stem):
\* title and artist come from the file name, the tags are read for the
\* video_id only, and the key video_id is always there
get_mp3_metadata(f) ==
    LET st == f.stem
        i == CHOOSE k \in SeparatorAt(st) : \A j \in SeparatorAt(st) : k <= j
        named == IF SeparatorAt(st) # {}
                 THEN [artist |-> Strip(SubSeq(st, 1, i - 1)),
                       title |-> Strip(SubSeq(st, i + 3, Len(st)))]
                 ELSE [artist |-> <<"U", "n", "k", "n", "o", "w", "n">>, title |-> st]
    IN [title |-> named.title, artist |-> named.artist, video_id |-> f.video_id,
        id |-> IdText(f.video_id)]

\* no file looked at
NoMetadata == [title |-> None, artist |-> None, video_id |-> NoTag, id |-> None]

\* the scan reads the metadata of the file at hand
GetMetadata ==
    /\ scan.op = "file"
    /\ scan' = [scan EXCEPT !.op = "metadata", !.meta = get_mp3_metadata(scan.file)]
    /\ last' = MkLast("metadata", "", "ok", NoPath)
    /\ UNCHANGED <<ledgerVars, clock, pipeVars, text, zot, gui, thr>>

InitMetadata ==
    /\ memValid = TRUE
    /\ mem = EmptySongs
    /\ diskKind = "missing"
    /\ diskSongs = EmptySongs
    /\ clock = 0
    /\ tags = NoFiles
    /\ run = IdleRun
    /\ completed = {}
    /\ text = NoText
    /\ zot = IdleZotify
    /\ gui = IdleGui
    /\ thr = IdleThreads
    /\ scan \in {[op |-> "file", file |-> f, meta |-> NoMetadata] : f \in Mp3Files}
    /\ last = MkLast("construct", "", "ok", NoPath)

SpecMetadata == InitMetadata /\ [][GetMetadata]_vars

----------------------------------------------------------------------------
(* gui.py and ui/main_window.py: the download threads of the windows *)

\* number of times the download button is pressed in one window
MaxThreads == 3

\* the reference lists typed into a window
GuiRefLists == {<<"v2">>, <<"p1">>, <<"v1", "p1">>}

\* the calls of the fetch engine one download(url) makes, in order: the call
\* for a video; for a playlist the resolution, then one per entry that is
\* not None
EngineCalls(idx, ref) ==
    IF is_playlist_url(ref)
    THEN LET entries == PlaylistEntries(ref)
             F[m \in 0..Len(entries)] ==
                 IF m = 0 THEN << [idx |-> idx, member |-> 0] >>
                 ELSE IF entries[m] = "none" THEN F[m - 1]
                 ELSE Append(F[m - 1], [idx |-> idx, member |-> m])
         IN F[Len(entries)]
    ELSE << [idx |-> idx, member |-> 0] >>

\* the calls of the fetch engine the loop over urls makes, in order
BatchCalls(urls) ==
    LET F[i \in 0..Len(urls)] ==
            IF i = 0 THEN <<>> ELSE F[i - 1] \o EngineCalls(i, urls[i])
    IN F[Len(urls)]

\* the threads that did not return yet
AliveThreads == {i \in 1..Len(gui.threads) : gui.threads[i].phase # "finished"}

\* the check that lets every press of the button through
DownloadRunning_never == FALSE

\* self._current_worker.isRunning() / self.download_thread.is_alive(): the
\* window keeps the thread it started last
DownloadRunning == gui.threads # <<>> /\ Len(gui.threads) \in AliveThreads

\* _start_download / start_download_from_urls on the UI thread: a warning
\* while a download is running, a new thread otherwise
GuiStartDownload(urls) ==
    /\ Len(gui.threads) < MaxThreads
    /\ IF DownloadRunning
       THEN /\ UNCHANGED gui
            /\ last' = MkLast("gui_start", "", "refused", NoPath)
       ELSE /\ gui' = [gui EXCEPT !.threads =
                          Append(@, [urls |-> urls, pos |-> 1, phase |-> "between"])]
            /\ last' = MkLast("gui_start", "", "ok", NoPath)
    /\ UNCHANGED <<ledgerVars, clock, pipeVars, text, zot, thr, scan>>

\* a download thread hands its next call to the fetch engine
BeginFetch(i) ==
    /\ i \in 1..Len(gui.threads)
    /\ gui.threads[i].phase = "between"
    /\ gui.threads[i].pos <= Len(BatchCalls(gui.threads[i].urls))
    /\ gui' = [gui EXCEPT !.threads[i].phase = "fetching",
                          !.log = Append(@, [thread |-> i, pos |-> gui.threads[i].pos])]
    /\ last' = MkLast("begin_fetch", "", "ok", NoPath)
    /\ UNCHANGED <<ledgerVars, clock, pipeVars, text, zot, thr, scan>>

\* the fetch engine returns or raises: a member failure is contained, a
\* failure at a reference ends the thread unless the Qt loop catches it
EndFetch(i, outcome) ==
    /\ i \in 1..Len(gui.threads)
    /\ gui.threads[i].phase = "fetching"
    /\ LET t == gui.threads[i]
           call == BatchCalls(t.urls)[t.pos]
           ends == /\ outcome = "fail"
                   /\ call.member = 0
                   /\ (gui.app = "tk" \/ is_playlist_url(t.urls[call.idx]))
       IN gui' = [gui EXCEPT !.threads[i].phase = IF ends THEN "finished" ELSE "between",
                             !.threads[i].pos = IF ends THEN @ ELSE @ + 1]
    /\ last' = MkLast("end_fetch", "", outcome, NoPath)
    /\ UNCHANGED <<ledgerVars, clock, pipeVars, text, zot, thr, scan>>

\* the loop over the references is over: run() / _download_worker returns
ThreadReturns(i) ==
    /\ i \in 1..Len(gui.threads)
    /\ gui.threads[i].phase = "between"
    /\ gui.threads[i].pos > Len(BatchCalls(gui.threads[i].urls))
    /\ gui' = [gui EXCEPT !.threads[i].phase = "finished"]
    /\ last' = MkLast("thread_returns", "", "ok", NoPath)
    /\ UNCHANGED <<ledgerVars, clock, pipeVars, text, zot, thr, scan>>

\* the Qt window or the tkinter window, no download started
InitGui ==
    /\ memValid = TRUE
    /\ mem = EmptySongs
    /\ diskKind = "missing"
    /\ diskSongs = EmptySongs
    /\ clock = 0
    /\ tags = NoFiles
    /\ run = IdleRun
    /\ completed = {}
    /\ text = NoText
    /\ zot = IdleZotify
    /\ gui \in {[IdleGui EXCEPT !.app = a] : a \in {"qt", "tk"}}
    /\ thr = IdleThreads
    /\ scan = NoScan
    /\ last = MkLast("construct", "", "ok", NoPath)

GuiNext ==
    \/ \E urls \in GuiRefLists : GuiStartDownload(urls)
    \/ \E i \in 1..MaxThreads : BeginFetch(i)
    \/ \E i \in 1..MaxThreads, outcome \in Outcomes : EndFetch(i, outcome)
    \/ \E i \in 1..MaxThreads : ThreadReturns(i)

SpecGui == InitGui /\ [][GuiNext]_vars

----------------------------------------------------------------------------
(* cache.py called from the threads of the Qt window: the DownloadWorker
   registers, the CacheClearWorker clears, the UI thread removes, all on the
   DownloadCache of the window, which takes no lock. A mutation is the
   statement that changes _data, then _save: open(file, "w"), json.dump into
   the buffer of the file object, and the close that writes the buffer *)

\* the threads that mutate the ledger of the window
LedgerThreads == {"worker", "clearer", "ui"}

\* the record the window starts with and the one the worker registers
SharedOld == MkSong(NameA, "u", "youtube", MkPath("singles", <<>>, NameA), None, 0)

SharedNew == MkSong(NameB, "u", "youtube", MkPath("singles", <<>>, NameB), None, 1)

\* the ledger of the window before the threads call it
SharedStore == ("v1" :> SharedOld)

\* the statement of the mutation that changes _data, per thread
MutateData(t, songs) ==
    CASE t = "worker" -> ("v2" :> SharedNew) @@ songs
      [] t = "clearer" -> EmptySongs
      [] OTHER -> [k \in DOMAIN songs \ {"v1"} |-> songs[k]]

\* remove returns False without saving when the id is not in the ledger
CallSaves(t, songs) == t = "ui" => "v1" \in DOMAIN songs

\* the size of the text json.dump makes of a "songs" mapping, in records
DumpSize(songs) == Cardinality(DOMAIN songs)

\* the threads not yet inside their call
NoCalls == [pc |-> [t \in LedgerThreads |-> "idle"],
            buf |-> [t \in LedgerThreads |-> EmptySongs],
            flen |-> DumpSize(SharedStore)]

\* register / clear / remove up to _save
LedgerCall(t) ==
    /\ thr.pc[t] = "idle"
    /\ mem' = MutateData(t, mem)
    /\ thr' = [thr EXCEPT !.pc[t] = IF CallSaves(t, mem) THEN "open" ELSE "returned"]
    /\ last' = MkLast("ledger_call", t, "ok", NoPath)
    /\ UNCHANGED <<memValid, diskKind, diskSongs, clock, pipeVars, text, zot, gui, scan>>

\* open(self._cache_file, "w"): the file is truncated
OpenFile(t) ==
    /\ thr.pc[t] = "open"
    /\ diskKind' = "garbage"
    /\ diskSongs' = EmptySongs
    /\ thr' = [thr EXCEPT !.pc[t] = "dump", !.flen = 0]
    /\ last' = MkLast("open", t, "ok", NoPath)
    /\ UNCHANGED <<memValid, mem, clock, pipeVars, text, zot, gui, scan>>

\* json.dump(self._data, f): what _data holds now goes to the buffer of f
DumpData(t) ==
    /\ thr.pc[t] = "dump"
    /\ thr' = [thr EXCEPT !.pc[t] = "close", !.buf[t] = mem]
    /\ last' = MkLast("dump", t, "ok", NoPath)
    /\ UNCHANGED <<ledgerVars, clock, pipeVars, text, zot, gui, scan>>

\* the end of the with block: the buffer is written at offset 0 of the file,
\* over what another handle wrote meanwhile; a longer text stays behind it
CloseFile(t) ==
    /\ thr.pc[t] = "close"
    /\ IF thr.flen > DumpSize(thr.buf[t])
       THEN /\ diskKind' = "garbage"
            /\ diskSongs' = EmptySongs
            /\ thr' = [thr EXCEPT !.pc[t] = "returned"]
       ELSE /\ diskKind' = "store"
            /\ diskSongs' = thr.buf[t]
            /\ thr' = [thr EXCEPT !.pc[t] = "returned", !.flen = DumpSize(thr.buf[t])]
    /\ last' = MkLast("close", t, "ok", NoPath)
    /\ UNCHANGED <<memValid, mem, clock, pipeVars, text, zot, gui, scan>>

\* the window with one record in its ledger, no thread inside a mutation
InitShared ==
    /\ memValid = TRUE
    /\ mem = SharedStore
    /\ diskKind = "store"
    /\ diskSongs = SharedStore
    /\ clock = 0
    /\ tags = NoFiles
    /\ run = IdleRun
    /\ completed = {}
    /\ text = NoText
    /\ zot = IdleZotify
    /\ gui = IdleGui
    /\ thr = NoCalls
    /\ scan = NoScan
    /\ last = MkLast("construct", "", "ok", NoPath)

SharedNext ==
    \/ \E t \in LedgerThreads : LedgerCall(t)
    \/ \E t \in LedgerThreads : OpenFile(t)
    \/ \E t \in LedgerThreads : DumpData(t)
    \/ \E t \in LedgerThreads : CloseFile(t)

SpecShared == InitShared /\ [][SharedNext]_vars

----------------------------------------------------------------------------
(* Ledger properties *)

\* what a DownloadCache constructed now from the backing file would hold
Reloaded == _load(diskKind, diskSongs)

\* C6: a register that returned, followed by the construction of a new
\* ledger on the same backing file, gives get_path(id) = path and
\* is_downloaded(id) = true; clear() on a ledger whose backing file is
\* missing or empty raises nothing (only a failed write of the file makes it
\* raise) and, once returned, leaves the empty store in the file.
C6_RegisterReloadRoundTrip ==
    [][ /\ (last.op = "register" /\ last.ret = "ok" /\ last'.op = "construct")
            => /\ ~is_downloaded(memValid', mem', last.id).raised
               /\ is_downloaded(memValid', mem', last.id).value
               /\ get_path(memValid', mem', last.id).value = last.path
        /\ (last'.op = "clear" /\ diskKind \in {"missing", "garbage"})
            => /\ last'.ret \in {"ok", "OSError"}
               /\ last'.ret = "ok" => (diskKind' = "store" /\ diskSongs' = EmptySongs)
      ]_vars

\* C6 witness: a ledger constructed from a file that holds registered songs
C6_Witness == last.op = "construct" /\ memValid /\ DOMAIN mem # {}

\* C7 (as stated): constructing a ledger against a missing or invalid backing
\* file yields an empty store whose queries answer without raising.
C7_CorruptFileGivesEmptyStore ==
    (last.op = "construct" /\ diskKind \in {"missing", "garbage", "nosongs"})
        => /\ memValid
           /\ mem = EmptySongs
           /\ \A id \in SongIds :
                 /\ ~is_downloaded(memValid, mem, id).raised
                 /\ ~is_downloaded(memValid, mem, id).value
                 /\ get_path(memValid, mem, id).value = NoPath
           /\ list_songs(memValid, mem).value = {}

\* C8: after register, clear, remove of an existing id or update of an
\* existing id has returned normally, the backing file holds exactly the
\* in-memory store: a ledger constructed from it answers is_downloaded,
\* get_path and list_songs as the live one does.
C8_FullSnapshotAfterMutation ==
    (\/ (last.op \in {"register", "clear"} /\ last.ret = "ok")
     \/ (last.op \in {"remove", "update"} /\ last.ret = "True"))
        => /\ diskKind = "store"
           /\ Reloaded.valid = memValid
           /\ Reloaded.songs = mem
           /\ list_songs(Reloaded.valid, Reloaded.songs) = list_songs(memValid, mem)
           /\ \A id \in SongIds :
                 /\ is_downloaded(Reloaded.valid, Reloaded.songs, id)
                        = is_downloaded(memValid, mem, id)
                 /\ get_path(Reloaded.valid, Reloaded.songs, id) = get_path(memValid, mem, id)

\* C8 witness: a remove that returned True and left another record behind
C8_Witness == last.op = "remove" /\ last.ret = "True" /\ DOMAIN mem # {}

\* C10 (as stated): remove(id) returns True when a record for id existed,
\* deleting it in memory and in the file and keeping the other records;
\* when none existed it returns False, raises nothing and changes neither
\* memory nor the file.  (A failed write of the file is left aside.)
C10_RemoveContract ==
    [][ last'.op = "remove" =>
          IF memValid /\ last'.id \in DOMAIN mem
          THEN /\ last'.ret \in {"True", "OSError"}
               /\ last'.ret = "True" =>
                     /\ mem' = [k \in DOMAIN mem \ {last'.id} |-> mem[k]]
                     /\ diskKind' = "store"
                     /\ diskSongs' = mem'
          ELSE /\ last'.ret = "False"
               /\ mem' = mem
               /\ diskKind' = diskKind
               /\ diskSongs' = diskSongs
      ]_vars

\* C11 (as stated): update(id, path?, collection?) on an absent id returns
\* False and changes neither memory nor the file; on an existing id it
\* returns True, sets only the fields that were supplied and leaves title,
\* artist, source and timestamp of the record and every other record as
\* they were.  (A failed write of the file is left aside.)
C11_UpdateIsPartial ==
    [][ last'.op = "update" =>
          IF memValid /\ last'.id \in DOMAIN mem
          THEN /\ last'.ret \in {"True", "OSError"}
               /\ last'.ret = "True" =>
                     LET old == mem[last'.id]
                         new == mem'[last'.id]
                     IN /\ DOMAIN mem' = DOMAIN mem
                        /\ \A k \in DOMAIN mem \ {last'.id} : mem'[k] = mem[k]
                        /\ new.title = old.title
                        /\ new.artist = old.artist
                        /\ new.source = old.source
                        /\ new.downloaded_at = old.downloaded_at
                        /\ new.path = IF last'.path # NoPath THEN last'.path ELSE old.path
                        /\ new.playlist = IF last'.playlist # None
                                          THEN last'.playlist ELSE old.playlist
          ELSE /\ last'.ret = "False"
               /\ mem' = mem
               /\ diskKind' = diskKind
               /\ diskSongs' = diskSongs
      ]_vars

----------------------------------------------------------------------------
(* Pipeline properties *)

\* the outcomes of _download_single in which the fetch engine was asked to fetch
FetchInvoked == {"downloaded", "YouTubeDownloadError:fetch", "OSError", "KeyError"}

\* a step that was a call of _download_single for a video
SingleCall(l) == l.op \in {"single", "member"} /\ l.id \in VideoIds

\* C1 (as stated): when download of a single video returned a success
\* descriptor with path P, the next download of the same video, with
\* nothing done in between, does not fetch and returns skipped = true with
\* path P.
C1_SecondDownloadIsSkipped ==
    [][ (/\ last.op = "single" /\ last.ret = "downloaded"
         /\ last'.op = "single" /\ last'.id = last.id)
        => /\ last'.ret \notin FetchInvoked
           /\ Returned(last'.ret) => (last'.ret = "skipped" /\ last'.path = last.path)
      ]_vars

\* C2 (as stated): a video id whose fetch/tag/register cycle has completed
\* is never handed to the fetch engine again.
C2_FetchedAtMostOnce ==
    [][ (SingleCall(last') /\ last'.ret \in FetchInvoked) => last'.id \notin completed ]_vars

\* C3 (as stated): in a command-line batch of three references whose
\* second reference fails with a resolution error, the batch does not stop:
\* the third reference is attempted too, and the summary is produced with
\* exactly one error.
C3_CliBatchSurvivesResolutionError ==
    [][ (/\ run.kind = "cli" /\ run.platform = "youtube" /\ Len(run.urls) = 3
         /\ run.status = "running" /\ run.idx = 2
         /\ last'.op = "single" /\ last'.ret = "YouTubeDownloadError:probe")
        => /\ run'.status = "running"
           /\ run'.idx = 3
           /\ Summary(run'.results).errors = Summary(run.results).errors + 1
      ]_vars

C5_LedgerAndScanAgreeAfterDownload ==
    (last.op = "single" /\ last.ret = "downloaded")
        => /\ is_downloaded(memValid, mem, last.id).value
           /\ is_song_downloaded(tags, last.id)

\* C9 (as stated): a failed write of the ledger file during a registration
\* always reaches the caller of the batch: the run ends with that error and
\* no descriptor is made of it.
C9_PersistErrorPropagates ==
    [][ (SingleCall(last') /\ last'.ret = "OSError")
        => /\ run'.status = "failed"
           /\ run'.raised = "OSError"
           /\ run'.results = run.results
      ]_vars

\* C16: whatever descriptors a batch has collected, each is counted in
\* exactly one of downloaded, skipped, errors: no descriptor is both skipped
\* and in error, and downloaded + skipped + errors is the number of
\* descriptors, the total of the Qt worker.
C16_SummaryIsPartition ==
    LET s == Summary(run.results)
    IN /\ s.total = Len(run.results)
       /\ s.downloaded + s.skipped + s.errors = s.total
       /\ \A i \in 1..Len(run.results) :
             ~(run.results[i].skipped /\ run.results[i].error # "")

\* C16 witness: a finished batch holding a downloaded, a skipped and a
\* failed item
C16_Witness ==
    /\ run.status = "done"
    /\ Summary(run.results).downloaded >= 1
    /\ Summary(run.results).skipped >= 1
    /\ Summary(run.results).errors >= 1

\* the ways download(reference) ends that are not a failure of the fetch
\* engine: a return, or an exception of the ledger
NotAnEngineFailure == {"ok", "downloaded", "skipped", "OSError", "KeyError"}

\* C17 (as stated): when download(reference) of the YouTube adapter fails
\* because of the fetch engine (metadata probe or fetch of a single video,
\* or resolution of a playlist), what reaches its caller is a
\* YouTubeDownloadError, never the engine's own exception.
C17_EngineFailuresAreWrapped ==
    [][ (/\ run.platform = "youtube"
         /\ last'.op \in {"single", "playlist"}
         /\ last'.ret \notin NotAnEngineFailure)
        => IsYouTubeDownloadError(last'.ret)
      ]_vars

\* C18 (as stated): the result of sanitize_filename holds none of the
\* characters < > : " / \ | ? *, no run of two or more whitespace
\* characters, no leading or trailing whitespace, and is at most 200
\* characters long (MaxNameLen here).
C18_SanitizePostcondition ==
    text.done =>
        LET r == text.result
        IN /\ \A i \in 1..Len(r) : r[i] \notin IllegalChars
           /\ \A i \in 1..(Len(r) - 1) : ~(r[i] \in Whitespace /\ r[i + 1] \in Whitespace)
           /\ r # <<>> => (r[1] \notin Whitespace /\ r[Len(r)] \notin Whitespace)
           /\ Len(r) <= MaxNameLen

\* a file or directory name that cannot be an output of sanitize_filename
\* or that leaves its parent directory
UnsafeName(n) ==
    \/ \E i \in 1..Len(n) : n[i] \in IllegalChars
    \/ n = <<".", ".">>

\* C19 (as stated): every file name and directory name the adapters build
\* is an output of sanitize_filename, so no path of a fetched file holds an
\* illegal character or leaves the music directory.
C19_CreatedNamesAreSanitized ==
    \A p \in DOMAIN tags : ~UnsafeName(p.pl) /\ ~UnsafeName(p.name)

\* C20: once cancel() was called on a running Qt worker, no further
\* reference is started; a collection in progress goes on through its
\* members and is never cut short; and at the next reference the worker
\* stops, leaving the collected descriptors, the files and the ledger as
\* they are.  cancel() itself changes nothing but the flag.
C20_CancelTakesEffectBetweenReferences ==
    [][ /\ (run.status = "running" /\ run.cancelled)
            => /\ last'.op \notin {"single", "playlist", "track", "start"}
               /\ run.member >= 1
                     => (run'.status = "running" /\ run'.cancelled /\ run'.idx >= run.idx)
               /\ (run.member = 0 /\ run.idx <= Len(run.urls))
                     => /\ run' \in {run, [run EXCEPT !.status = "cancelled"]}
                        /\ tags' = tags
                        /\ completed' = completed
        /\ last'.op = "cancel"
            => (run' = [run EXCEPT !.cancelled = TRUE] /\ tags' = tags /\ mem' = mem)
        /\ (run.status = "running" /\ run'.status = "cancelled")
            => (run.cancelled /\ run.member = 0 /\ run'.results = run.results)
      ]_vars

\* C20 witness: a worker cancelled during the first of three references
\* stopped before the second one
C20_Witness ==
    /\ run.status = "cancelled"
    /\ Len(run.urls) = 3
    /\ run.idx = 2
    /\ Len(run.results) = 1

----------------------------------------------------------------------------
(* Spotify adapter properties *)

\* a step that was a call of _download_track for a track the ledger did not
\* report as downloaded
TrackCallNotInLedger ==
    /\ last'.op \in {"track", "member"}
    /\ last'.id \in TrackIds
    /\ ~is_downloaded(memValid, mem, SpotifyKey(last'.id)).raised
    /\ ~is_downloaded(memValid, mem, SpotifyKey(last'.id)).value

C13_TrackIsDelegatedToZotify ==
    [][ (TrackCallNotInLedger /\ last'.ret # "SpotifyException")
        => /\ last'.ret = "downloaded"
           /\ zot'.calls = zot.calls + 1
      ]_vars

----------------------------------------------------------------------------
(* ZotifyDownloader properties *)

\* C14: download_track runs the external tool exactly once per call; when
\* the tool exits with failure the call raises RuntimeError ("Zotify
\* download failed: ...") and returns no descriptor; it returns a descriptor,
\* with skipped = false, only when the tool succeeded.
C14_TrackRunsToolOnceAndReportsFailure ==
    [][ last'.op = "zotify_track"
        => /\ zot'.procs = zot.procs + 1
           /\ zot'.tool = "exit_failure"
                 => (zot'.ret = "RuntimeError: Zotify download failed" /\ zot'.descs = 0)
           /\ zot'.ret = "returned"
                 => (zot'.tool = "ok" /\ zot'.descs = 1 /\ ~zot'.skipped)
           /\ zot'.ret # "returned" => zot'.descs = 0
      ]_vars

\* C14 witness: a call whose tool exited with failure, after one that succeeded
C14_Witness ==
    /\ last.op = "zotify_track"
    /\ zot.tool = "exit_failure"
    /\ zot.ret = "RuntimeError: Zotify download failed"
    /\ zot.procs >= 2

\* C15 (as stated): every call of download_playlist raises
\* NotImplementedError without running the external tool and without
\* returning a descriptor.
C15_PlaylistIsNotImplemented ==
    [][ last'.op = "zotify_playlist"
        => /\ zot'.ret = "NotImplementedError"
           /\ zot'.procs = zot.procs
           /\ zot'.descs = 0
      ]_vars

----------------------------------------------------------------------------
(* Spotify adapter: construction *)

\* a batch on Spotify is started with a credential that is None or empty
StartWithoutCredentials ==
    \E client_id \in Credentials, client_secret \in Credentials,
       urls \in SpotifyShapes, name \in {None, NameP} :
       /\ Falsy(client_id) \/ Falsy(client_secret)
       /\ SpStart(client_id, client_secret, urls, name)

\* C23: constructing the Spotify adapter with a credential absent or empty
\* raises SpotifyConfigError: the ledger, its backing file and the music
\* directory are as they were, no reference is processed, and no call of
\* the adapter follows, since none was constructed.
C23_MissingCredentialsFailAtConstruction ==
    [][/\ StartWithoutCredentials =>
             /\ run'.status = "failed"
             /\ run'.raised = "SpotifyConfigError"
             /\ run'.results = <<>>
             /\ last'.op = "spotify_init"
             /\ mem' = IF Reloaded.valid THEN Reloaded.songs ELSE EmptySongs
             /\ UNCHANGED <<diskKind, diskSongs, tags, completed>>
       /\ run.raised = "SpotifyConfigError" =>
             last'.op \notin {"track", "playlist", "member", "page", "finish"}]_vars

\* the construction failed with records in the ledger and files on disk
C23_Witness ==
    /\ last.op = "spotify_init"
    /\ run.status = "failed"
    /\ diskKind = "store"
    /\ diskSongs # EmptySongs
    /\ mem = diskSongs

\* the exceptions the adapters declare: YouTubeDownloadError and
\* SpotifyDownloadError
IsDownloadError(ret) == IsYouTubeDownloadError(ret) \/ ret = "SpotifyDownloadError"

\* C24: download of a reference neither catalog knows raises the download
\* error of the adapter, and the ledger, its backing file and the music
\* directory are as they were; a reference the catalog knows is handled as
\* exactly one of single item, collection or album.
C24_UnrecognizedReferenceIsRejected ==
    [][/\ (last'.op \in {"single", "playlist", "unsupported"} /\ last'.id \in UnknownRefs)
             => /\ IsDownloadError(last'.ret)
                /\ UNCHANGED <<mem, diskKind, diskSongs, tags, completed>>
       /\ last'.op = "unsupported" => last'.id \in UnknownRefs
       /\ last'.id \in TrackIds \cup VideoIds => last'.op \in {"single", "track", "member", "album_member"}
       /\ last'.id \in PlaylistIds \cup SpotifyPlaylistIds => last'.op \in {"playlist", "page"}
       /\ last'.id \in AlbumIds => last'.op = "album"]_vars

----------------------------------------------------------------------------
(* Spotify adapter: collections *)

\* the items of all the pages, in page order then item order
AllItems(pages) ==
    LET F[i \in 0..Len(pages)] == IF i = 0 THEN <<>> ELSE F[i - 1] \o pages[i]
    IN F[Len(pages)]

\* a sequence without its "none" items
Tracks(items) ==
    LET F[i \in 0..Len(items)] ==
            IF i = 0 THEN <<>>
            ELSE IF items[i] = "none" THEN F[i - 1] ELSE Append(F[i - 1], items[i])
    IN F[Len(items)]

\* the errors of a track's own processing: the catalog call, the Zotify
\* placeholder, a ledger without "songs"
OwnFailures == {"SpotifyException", "AttributeError", "KeyError"}

\* C25: when the download of an album has returned, there is one descriptor
\* per track of the album, over all its pages and in catalog order; the
\* descriptor of a track the ledger holds is skipped with the recorded path,
\* and an error descriptor carries a failure of that track's own processing.
C25_AlbumFollowsCollectionPattern ==
    (run.status = "done" /\ run.urls = <<"al1">>) =>
        LET all == Tracks(AllItems(AlbumPages("al1")))
        IN /\ Len(run.results) = Len(all)
           /\ \A i \in 1..Len(run.results) :
                 /\ run.results[i].id = all[i]
                 /\ SpotifyKey(all[i]) \in DOMAIN mem =>
                       /\ run.results[i].skipped
                       /\ run.results[i].path = mem[SpotifyKey(all[i])].path
                 /\ run.results[i].error # "" => run.results[i].error \in OwnFailures

\* C26: the download of a Spotify playlist follows the cursor from page to
\* page until there is none: while it runs, the descriptors collected are
\* those of the tracks before the position of the loop, in catalog order and
\* one per track; when it has returned they are those of every page; and
\* the loop ends (or the download raises) once started.
C26_PlaylistPagesInCatalogOrder ==
    /\ [](/\ (run.status = "done" /\ run.urls = <<"sp1">>) =>
                [i \in 1..Len(run.results) |-> run.results[i].id]
                    = Tracks(AllItems(PlaylistPages("sp1")))
          /\ (run.status = "running" /\ run.member >= 1 /\ run.urls = <<"sp1">>) =>
                /\ run.page <= Len(PlaylistPages("sp1"))
                /\ [i \in 1..Len(run.results) |-> run.results[i].id]
                      = Tracks(AllItems(SubSeq(PlaylistPages("sp1"), 1, run.page - 1))
                               \o SubSeq(PlaylistPages("sp1")[run.page], 1, run.member - 1)))
    /\ (run.status = "running" /\ run.member >= 1 /\ run.urls = <<"sp1">>)
          ~> (run.status \in {"done", "failed"})

\* the playlist was downloaded to its end: a skipped track of the first
\* page, then the track of the second page
C26_Witness ==
    /\ run.status = "done"
    /\ run.urls = <<"sp1">>
    /\ Len(run.results) = 2
    /\ run.results[1].skipped
    /\ run.results[2].id = "t2"

----------------------------------------------------------------------------
(* YouTube adapter: registration, and the Qt batch *)

\* C27: a single-item download changes the ledger (memory or backing file)
\* for video V only when the fetch succeeded and the tags were written, so
\* that a file carrying V as embedded id exists; when the probe or the
\* fetch failed the ledger is unchanged.
C27_RecordOnlyAfterFetchAndTags ==
    [][(last'.op \in {"single", "member"} /\ last'.id \in VideoIds) =>
          /\ <<mem, diskKind, diskSongs>>' # <<mem, diskKind, diskSongs>> =>
                \E p \in DOMAIN tags' : tags'[p] = last'.id
          /\ IsYouTubeDownloadError(last'.ret) =>
                UNCHANGED <<mem, diskKind, diskSongs>>]_vars

\* the failures of one reference: the probe, the fetch, the resolution of a
\* playlist
ReferenceFailures ==
    {"YouTubeDownloadError:probe", "YouTubeDownloadError:fetch", "DownloadError"}

\* C28: a batch of the Qt worker is never ended by the failure of one
\* reference: the loop goes on to the next reference and the run ends with
\* the summary.
C28_QtBatchAlwaysCompletes ==
    (run.kind = "qt" /\ run.status = "failed") => run.raised \notin ReferenceFailures

----------------------------------------------------------------------------
(* Concurrency properties *)

\* the calls a thread handed to the fetch engine, in the order it made them
CallsOf(i) ==
    LET F[n \in 0..Len(gui.log)] ==
            IF n = 0 THEN <<>>
            ELSE IF gui.log[n].thread = i THEN Append(F[n - 1], gui.log[n].pos)
            ELSE F[n - 1]
    IN F[Len(gui.log)]

\* C21: at most one call of the fetch engine is in flight in a window: at
\* most one download thread is alive, at most one thread is inside the
\* engine, and every thread made its calls in the order of its reference
\* list (references in list order, members of a playlist in entry order).
C21_OneFetchInFlight ==
    /\ Cardinality(AliveThreads) <= 1
    /\ Cardinality({i \in 1..Len(gui.threads) : gui.threads[i].phase = "fetching"}) <= 1
    /\ \A i \in 1..Len(gui.threads) :
          /\ CallsOf(i) = [n \in 1..Len(CallsOf(i)) |-> n]
          /\ Len(CallsOf(i)) \in {gui.threads[i].pos - 1, gui.threads[i].pos}

\* a second press of the button was refused while a member of a playlist
\* was being fetched, after the first reference was done
C21_Witness ==
    /\ last.op = "gui_start"
    /\ last.ret = "refused"
    /\ \E i \in AliveThreads :
          /\ gui.threads[i].phase = "fetching"
          /\ BatchCalls(gui.threads[i].urls)[gui.threads[i].pos].member >= 1
          /\ BatchCalls(gui.threads[i].urls)[gui.threads[i].pos].idx = 2

\* the ledgers left by register, clear and remove made one after another,
\* in every order
SequentialResults ==
    LET Apply(t, songs) == MutateData(t, songs)
    IN {Apply(c, Apply(b, Apply(a, SharedStore))) :
           <<a, b, c>> \in {q \in LedgerThreads \X LedgerThreads \X LedgerThreads :
                               Cardinality({q[1], q[2], q[3]}) = 3}}

\* C22: once register (DownloadWorker), clear (CacheClearWorker) and remove
\* (UI thread) have all returned, the backing file holds _data, and _data is
\* what the three mutations leave when made one after another in some order.
C22_SharedLedgerMutationsAreAtomic ==
    (\A t \in LedgerThreads : thr.pc # <<>> /\ thr.pc[t] = "returned")
        => /\ diskKind = "store"
           /\ diskSongs = mem
           /\ mem \in SequentialResults

----------------------------------------------------------------------------
(* Filesystem reconciler properties *)

\* the scope of a file in the order of the scan: a playlist, singles, root
ScopeRank(p) ==
    CASE p.scope = "playlists" -> 0 [] p.scope = "singles" -> 1 [] OTHER -> 2

\* the files one level below the music directory's three scopes
InScope(p) ==
    \/ p.scope = "playlists" /\ p.pl # <<>>
    \/ p.scope = "singles"
    \/ p.scope = "root"

\* C29: scan_all_songs returns one entry per .mp3 file of each scope and no
\* other entry: the files of the playlists come first, playlist by playlist
\* in sorted order of the names, then those of singles, then those directly
\* in the music directory; files deeper than one level are not listed, and
\* two files with the same embedded id are both listed.
C29_ScanAllOrderAndScopes ==
    scan.op = "scan_all" =>
        LET r == scan.songs
        IN /\ {r[i].path : i \in 1..Len(r)} = {p \in DOMAIN tags : InScope(p)}
           /\ Len(r) = Cardinality({p \in DOMAIN tags : InScope(p)})
           /\ \A i \in 1..Len(r) : r[i].video_id = tags[r[i].path]
           /\ \A i \in 1..Len(r), j \in 1..Len(r) :
                 i < j => /\ ScopeRank(r[i].path) <= ScopeRank(r[j].path)
                          /\ (r[i].path.scope = "playlists" /\ r[j].path.scope = "playlists")
                                => NameRank(r[i].path.pl) <= NameRank(r[j].path.pl)

\* the scan listed the same item twice, from a playlist and from the root,
\* with a deeper file left out
C29_Witness ==
    /\ scan.op = "scan_all"
    /\ Len(scan.songs) >= 3
    /\ scan.songs[1].path.scope = "playlists"
    /\ scan.songs[1].video_id = "v1"
    /\ scan.songs[Len(scan.songs)].path.scope = "root"
    /\ scan.songs[Len(scan.songs)].video_id = "v1"
    /\ MkPath("nested", NameA, NameA) \in DOMAIN tags

\* the positions in scan_all_songs of the files whose embedded id is vid
Matches(vid) ==
    {i \in 1..Len(scan_all_songs(tags)) : scan_all_songs(tags)[i].video_id = vid}

\* C30: find_song_by_video_id returns the first file of scan_all_songs whose
\* embedded id equals the id, and None when there is none;
\* is_song_downloaded is true exactly when it returns a file; a file without
\* embedded id is never returned for an id an adapter passes.
C30_FindReturnsFirstMatch ==
    /\ scan.op = "find" =>
          /\ scan.found <=> Matches(scan.id) # {}
          /\ scan.found =>
                /\ \E i \in Matches(scan.id) :
                      /\ scan_all_songs(tags)[i].path = scan.path
                      /\ \A j \in Matches(scan.id) : i <= j
                /\ tags[scan.path] # NoTag
          /\ ~scan.found => scan.path = NoPath
    /\ scan.op = "is_downloaded" =>
          (scan.found <=> find_song_by_video_id(tags, scan.id).found)

\* the id is embedded in two files and the one of the playlist is returned,
\* while a file without embedded id lies in singles
C30_Witness ==
    /\ scan.op = "find"
    /\ scan.found
    /\ scan.path.scope = "playlists"
    /\ Cardinality(Matches(scan.id)) >= 2
    /\ MkPath("singles", <<>>, NameA) \in DOMAIN tags
    /\ tags[MkPath("singles", <<>>, NameA)] = NoTag

\* C31: the identity of a scanned file is its embedded video id when it has
\* one and its file name stem otherwise; title and artist are those of the
\* embedded tags when the file is tagged, and are parsed from the file name
\* only when it is not.
C31_IdentityAndMetadataFallback ==
    scan.op = "metadata" =>
        /\ scan.meta.id = IF scan.file.video_id # NoTag THEN IdText(scan.file.video_id)
                          ELSE scan.file.stem
        /\ scan.file.tagged =>
              /\ scan.meta.title = scan.file.title
              /\ scan.meta.artist = scan.file.artist
        /\ ~scan.file.tagged =>
              /\ scan.meta.title = get_mp3_metadata(scan.file).title
              /\ scan.meta.artist = get_mp3_metadata(scan.file).artist

----------------------------------------------------------------------------
(* Output files and identities *)

\* C32: distinct identities never share an output file: after a download of
\* a video no two ids of the ledger have the same path, and the download
\* leaves every file that carried the embedded id of another item with that
\* id, also when two titles sanitize to the same name in one directory.
C32_DistinctIdsNeverShareAFile ==
    [][ SingleCall(last') =>
          /\ memValid =>
                \A a \in DOMAIN mem', b \in DOMAIN mem' :
                    a # b => mem'[a].path # mem'[b].path
          /\ \A f \in DOMAIN tags :
                tags[f] \in VideoIds \ {last'.id} => (f \in DOMAIN tags' /\ tags'[f] = tags[f])
      ]_vars

----------------------------------------------------------------------------
(* Ledger: failed writes *)

\* C34: a mutation of the ledger (register, remove, update, clear) whose
\* write of the backing file fails changes nothing observable: the store in
\* memory answers is_downloaded, get_path and list_songs as before the call,
\* and when memory and the file agreed before the call they agree after it.
C34_FailedMutationChangesNothing ==
    [][ (last'.op \in {"register", "remove", "update", "clear"} /\ last'.ret = "OSError")
        => /\ \A id \in SongIds :
                 /\ is_downloaded(memValid', mem', id) = is_downloaded(memValid, mem, id)
                 /\ get_path(memValid', mem', id) = get_path(memValid, mem, id)
           /\ list_songs(memValid', mem') = list_songs(memValid, mem)
           /\ Reloaded = [valid |-> memValid, songs |-> mem]
                 => Reloaded' = [valid |-> memValid', songs |-> mem']
      ]_vars

----------------------------------------------------------------------------
(* sanitize_filename: algebra *)

\* C38: sanitize_filename is idempotent: applied to its own result it
\* returns that result, also for names longer than the truncation bound.
C38_SanitizeIsIdempotent ==
    text.done => sanitize_filename(text.result) = text.result

----------------------------------------------------------------------------
(* Skipped downloads *)

----------------------------------------------------------------------------
(* The counts of the summary *)

\* C36: the downloaded count of the summary is the number of items whose
\* fetch/tag/register cycle completed in the batch: a descriptor added by a
\* call of _download_single raises the count by one exactly when the file was
\* fetched, carries the id and is registered, and an item whose processing
\* raised is counted under errors and not under downloaded.
C36_DownloadedCountsCompletedCycles ==
    [][ (SingleCall(last') /\ Len(run'.results) = Len(run.results) + 1)
        => LET before == Summary(run.results)
               after == Summary(run'.results)
               cycle == /\ last'.ret = "downloaded"
                        /\ last'.path \in DOMAIN tags'
                        /\ tags'[last'.path] = last'.id
                        /\ is_downloaded(memValid', mem', last'.id).value
           IN /\ after.downloaded = before.downloaded + (IF cycle THEN 1 ELSE 0)
              /\ ~Returned(last'.ret) =>
                    /\ after.errors = before.errors + 1
                    /\ after.downloaded = before.downloaded
      ]_vars

----------------------------------------------------------------------------
(* The Qt worker and the download controls *)

\* C37: every started run of the DownloadWorker terminates; a run that was
\* not cancelled has emitted exactly one terminal notification,
\* download_complete or download_error; and after every terminated run the
\* download controls disabled at start are enabled again.
C37_WorkerTerminatesAndControlsReturn ==
    /\ isRunning ~> Terminated
    /\ [](Terminated /\ ~run.cancelled => Cardinality(Emitted) = 1)
    /\ Terminated ~> gui.controls

----------------------------------------------------------------------------
(* Ledger and tree under downloads, delete and move *)

\* C33: after any sequence of downloads of the YouTube adapter, delete-song
\* and move-song requests of the window, for every video id the ledger
\* reports is_downloaded exactly when the scan of the music directory finds
\* the id, and the path of the ledger record is the path the scan finds.
C33_LedgerAndScanStayInAgreement ==
    \A V \in VideoIds :
        /\ is_downloaded(memValid, mem, V).value <=> is_song_downloaded(tags, V)
        /\ is_downloaded(memValid, mem, V).value =>
              get_path(memValid, mem, V).value = find_song_by_video_id(tags, V).path

====
